---- MODULE Spec2Model ----
(***************************************************************************)
(* Slide_app: content generation with a validation retry loop              *)
(* (slide_agent.py) and the revision history / edit matching of the web    *)
(* application (app.py).                                                   *)
(*                                                                         *)
(* Representation.  A Python dict is a function from its keys to values,   *)
(* so a missing key is a key outside DOMAIN.  A Python list is a sequence. *)
(* object_name is a sequence of one-character strings, because the title   *)
(* transform works on substrings; the Hebrew letters of the two markers    *)
(* are written with Latin stand-ins: kaf "k", vav "w", tav "t", resh "r",  *)
(* so the marker of five letters is k-w-t-r-t and the marker of two is     *)
(* t-t.  Other Hebrew literals (labels, the refusal message) are opaque    *)
(* strings and are written with ASCII stand-ins.  The timestamp of a       *)
(* revision is the wall clock and is left out of the revision record.      *)
(*                                                                         *)
(* A deck is held by value wherever one name alone refers to it.  Where    *)
(* the identity of the object matters (SpecHeap: is a snapshot the object  *)
(* that the live deck is?) a deck is held by reference: the value is       *)
(* [address |-> a] and the deck is heap[a].                                *)
(***************************************************************************)
EXTENDS Integers, Sequences, FiniteSets, TLC

VARIABLES
    skeleton,          \* deck_state["skeleton"]: None or the live deck
    revision_manager,  \* deck_state["revision_manager"]: [revisions, current_revision_id]
    ret,               \* what the last operation was called with and returned
    gen,               \* one run of the retry loop: the LLM script and what it produced
    heap               \* the decks held by reference: heap[a] is the deck at address a

vars == <<skeleton, revision_manager, ret, gen, heap>>

-----------------------------------------------------------------------------
(* Program constants and bounds *)

MAX_REVISIONS == 30

DefaultMaxRetries == 2

\* text (generated_content, new_content) is a sequence of symbols
NO_INFO_MESSAGE == <<"NO_INFO_MESSAGE">>

\* saves allowed on one RevisionManager when it is exercised alone
MaxSaves == 32

\* saves allowed on one RevisionManager in the application
MaxAppSaves == 3

\* saves allowed on one RevisionManager when the answers of the edit LLM vary
MaxAnswerSaves == 2

\* deck objects allocated when decks are held by reference
MaxCells == 6

\* largest max_retries a SlideAgent is constructed with
MaxRetriesBound == 2

\* lines of an answer of the validation LLM
MaxLines == 2

-----------------------------------------------------------------------------
(* Python values *)

None == [none |-> TRUE]

\* d[k] = v on a dict
SetKey(d, k, v) == (k :> v) @@ d

\* d.get(k, default)
Get(d, k, default) == IF k \in DOMAIN d THEN d[k] ELSE default

\* str(n) for the slide numbers in use
Str(n) ==
    CASE n = 0 -> "0" [] n = 1 -> "1" [] n = 2 -> "2" [] n = 3 -> "3"
      [] n = 4 -> "4" [] n = 5 -> "5" [] n = 6 -> "6" [] n = 7 -> "7"
      [] n = 8 -> "8" [] n = 9 -> "9"

Ref(a) == [address |-> a]

IsRef(x) == "address" \in DOMAIN x

\* the deck a value or a reference stands for
Deref(x) == IF IsRef(x) THEN heap[x.address] ELSE x

\* the object handed on as it is, without a copy
deepcopy_same_object(x) == x

\* copy.deepcopy: a new object equal to x that shares nothing with it.  Of a
\* deck held by value the value is the copy; of a deck held by reference the
\* copy is put in the next free cell of the heap (see Allocate).
deepcopy(x) == IF IsRef(x) THEN Ref(Len(heap) + 1) ELSE x

\* the heap after copy.deepcopy of the deck at reference x
Allocate(x) == Append(heap, heap[x.address])

\* A value whose Python type the program does not control (what json.loads
\* returns for the answer of the edit LLM) carries its type.
PyDict(d) == [type |-> "dict", v |-> d]
PyList(xs) == [type |-> "list", v |-> xs]
PyStr(s) == [type |-> "str", v |-> s]
PyInt(n) == [type |-> "int", v |-> n]
PyNone == [type |-> "NoneType", v |-> ""]

\* the values of a dict of scalars, without their types
Fields(d) == [k \in DOMAIN d.v |-> d.v[k].v]

-----------------------------------------------------------------------------
(* parse_llm_json.  The answer of the LLM is a sequence of lines, a line a *)
(* sequence of tokens: the punctuation of JSON, string and number          *)
(* literals, null, the Markdown fence and words of prose.  A blank line is *)
(* the empty sequence.                                                     *)

Tok(t) == [t |-> t, v |-> ""]
TokStr(s) == [t |-> "str", v |-> s]
TokInt(n) == [t |-> "int", v |-> n]

\* "\n".join(lines) as json.loads reads it: the tokens of all lines
RECURSIVE JoinLines(_)
JoinLines(lines) ==
    IF lines = <<>> THEN <<>> ELSE Head(lines) \o JoinLines(Tail(lines))

\* str.strip on a text of lines: the blank lines at both ends go
RECURSIVE StripLines(_)
StripLines(lines) ==
    IF lines # <<>> /\ Head(lines) = <<>> THEN StripLines(Tail(lines))
    ELSE IF lines # <<>> /\ lines[Len(lines)] = <<>>
         THEN StripLines(SubSeq(lines, 1, Len(lines) - 1))
         ELSE lines

\* cleaned.startswith and cleaned.endswith of the fence of three backquotes
StartsWithFence(lines) ==
    lines # <<>> /\ Head(lines) # <<>> /\ Head(lines)[1].t = "fence"

EndsWithFence(lines) ==
    lines # <<>> /\ lines[Len(lines)] # <<>>
        /\ lines[Len(lines)][Len(lines[Len(lines)])].t = "fence"

JSONDecodeError(msg, pos) == [raised |-> "JSONDecodeError", msg |-> msg, pos |-> pos]

Parsed(value, next) == [raised |-> "", ret |-> value, next |-> next]

TokAt(toks, i) == IF i \in 1..Len(toks) THEN toks[i].t ELSE "end"

\* json.loads on the tokens: the value that starts at token i
RECURSIVE ParseValue(_, _), ParseObject(_, _, _), ParseArray(_, _, _)
ParseValue(toks, i) ==
    CASE TokAt(toks, i) = "str" -> Parsed(PyStr(toks[i].v), i + 1)
      [] TokAt(toks, i) = "int" -> Parsed(PyInt(toks[i].v), i + 1)
      [] TokAt(toks, i) = "null" -> Parsed(PyNone, i + 1)
      [] TokAt(toks, i) = "{" ->
            IF TokAt(toks, i + 1) = "}" THEN Parsed(PyDict(<<>>), i + 2)
            ELSE ParseObject(toks, i + 1, <<>>)
      [] TokAt(toks, i) = "[" ->
            IF TokAt(toks, i + 1) = "]" THEN Parsed(PyList(<<>>), i + 2)
            ELSE ParseArray(toks, i + 1, <<>>)
      [] OTHER -> JSONDecodeError("Expecting value", i)

\* the pairs of an object from token i on, pairs being the dict so far
ParseObject(toks, i, pairs) ==
    IF TokAt(toks, i) # "str"
    THEN JSONDecodeError("Expecting property name enclosed in double quotes", i)
    ELSE IF TokAt(toks, i + 1) # ":"
    THEN JSONDecodeError("Expecting ':' delimiter", i + 1)
    ELSE LET value == ParseValue(toks, i + 2)
         IN  IF value.raised # "" THEN value
             ELSE LET d == SetKey(pairs, toks[i].v, value.ret)
                  IN  CASE TokAt(toks, value.next) = "}" ->
                              Parsed(PyDict(d), value.next + 1)
                        [] TokAt(toks, value.next) = "," ->
                              ParseObject(toks, value.next + 1, d)
                        [] OTHER ->
                              JSONDecodeError("Expecting ',' delimiter", value.next)

\* the elements of an array from token i on, values being the list so far
ParseArray(toks, i, values) ==
    LET value == ParseValue(toks, i)
    IN  IF value.raised # "" THEN value
        ELSE LET xs == Append(values, value.ret)
             IN  CASE TokAt(toks, value.next) = "]" ->
                         Parsed(PyList(xs), value.next + 1)
                   [] TokAt(toks, value.next) = "," ->
                         ParseArray(toks, value.next + 1, xs)
                   [] OTHER ->
                         JSONDecodeError("Expecting ',' delimiter", value.next)

json_loads(toks) ==
    LET value == ParseValue(toks, 1)
    IN  IF value.raised # "" THEN value
        ELSE IF value.next <= Len(toks) THEN JSONDecodeError("Extra data", value.next)
        ELSE [raised |-> "", ret |-> value.ret]

parse_llm_json(raw_response) ==
    LET stripped == StripLines(raw_response)
        opened == IF StartsWithFence(stripped) THEN Tail(stripped) ELSE stripped
        cleaned == IF EndsWithFence(opened) THEN SubSeq(opened, 1, Len(opened) - 1)
                   ELSE opened
    IN  json_loads(JoinLines(cleaned))

-----------------------------------------------------------------------------
(* Title objects: SlideAgent._is_title_object, SlideAgent._generate_title *)

MarkerTitle == <<"k", "w", "t", "r", "t">>

MarkerSub == <<"t", "t">>

\* str.lower on the alphabet in use
LowerChar(c) == IF c = "A" THEN "a" ELSE IF c = "B" THEN "b" ELSE c

Lower(s) == [i \in 1..Len(s) |-> LowerChar(s[i])]

\* word in s
Contains(s, word) ==
    \E i \in 1..(Len(s) - Len(word) + 1) : SubSeq(s, i, i + Len(word) - 1) = word

\* s.replace(word, ""): the non-overlapping occurrences, left to right
RECURSIVE Remove(_, _)
Remove(s, word) ==
    IF Len(s) < Len(word) THEN s
    ELSE IF SubSeq(s, 1, Len(word)) = word
         THEN Remove(SubSeq(s, Len(word) + 1, Len(s)), word)
         ELSE <<s[1]>> \o Remove(Tail(s), word)

\* " ".join(s.split()): whitespace runs become one space, none at the ends
RECURSIVE Collapse(_, _)
Collapse(s, pending) ==
    IF s = <<>> THEN <<>>
    ELSE IF s[1] = " " THEN Collapse(Tail(s), TRUE)
         ELSE (IF pending THEN <<" ", s[1]>> ELSE <<s[1]>>) \o Collapse(Tail(s), FALSE)

\* the whitespace str.strip removes, of the alphabet in use
Whitespace == {" ", "\n"}

RECURSIVE LStrip(_)
LStrip(s) == IF s # <<>> /\ s[1] \in Whitespace THEN LStrip(Tail(s)) ELSE s

JoinSplit(s) == LET t == LStrip(s) IN
    IF t = <<>> THEN <<>> ELSE <<t[1]>> \o Collapse(Tail(t), FALSE)

RECURSIVE RStrip(_)
RStrip(s) ==
    IF s # <<>> /\ s[Len(s)] \in Whitespace THEN RStrip(SubSeq(s, 1, Len(s) - 1)) ELSE s

Strip(s) == RStrip(LStrip(s))

_is_title_object(obj) ==
    LET name == Lower(obj["object_name"])
    IN  Contains(name, MarkerSub) \/ Contains(name, MarkerTitle)

\* a title without the " ".join(name.split()) at the end
_generate_title_no_join(object_name) ==
    Remove(Remove(Strip(object_name), MarkerTitle), MarkerSub)

_generate_title(object_name) ==
    JoinSplit(Remove(Remove(Strip(object_name), MarkerTitle), MarkerSub))

-----------------------------------------------------------------------------
(* The verdict of the validator: ValidatorAgent._parse_validation_response. *)
(* The answer of the validation LLM is a tagged value, a str or None; a     *)
(* text is a sequence of characters, "\n" the line break.                   *)

TagValid == <<"V", "A", "L", "I", "D", ":">>

TagReason == <<"R", "E", "A", "S", "O", "N", ":">>

TagFeedback == <<"F", "E", "E", "D", "B", "A", "C", "K", ":">>

\* the tuple of line 136
AffirmativeTokens ==
    {<<"כ", "ן">>, <<"y", "e", "s">>, <<"Y", "e", "s">>, <<"כ", "ן", ".">>}

\* the reason and the feedback of the except branch, each as one symbol
ParseFailedReason == <<"שגיאה בפענוח תוצאת הבדיקה">>

ParseFailedFeedback == <<"נסה שוב">>

\* s.startswith(prefix)
StartsWith(s, prefix) ==
    Len(s) >= Len(prefix) /\ SubSeq(s, 1, Len(prefix)) = prefix

\* text.split("\n"), line the characters of the line being read
RECURSIVE SplitLines(_, _)
SplitLines(text, line) ==
    IF text = <<>> THEN <<line>>
    ELSE IF Head(text) = "\n" THEN <<line>> \o SplitLines(Tail(text), <<>>)
    ELSE SplitLines(Tail(text), Append(line, Head(text)))

\* the for loop of lines 132-140
RECURSIVE ReadLines(_, _)
ReadLines(lines, result) ==
    IF lines = <<>> THEN result
    ELSE LET line == Strip(Head(lines))
         IN  ReadLines(Tail(lines),
                 IF StartsWith(line, TagValid)
                 THEN [result EXCEPT !["is_valid"] =
                          Strip(Remove(line, TagValid)) \in AffirmativeTokens]
                 ELSE IF StartsWith(line, TagReason)
                 THEN [result EXCEPT !["reason"] = Strip(Remove(line, TagReason))]
                 ELSE IF StartsWith(line, TagFeedback)
                 THEN [result EXCEPT !["feedback"] = Strip(Remove(line, TagFeedback))]
                 ELSE result)

\* None has no strip: the AttributeError is caught at line 141
_parse_validation_response(response_text) ==
    IF response_text.type # "str"
    THEN [is_valid |-> FALSE, reason |-> ParseFailedReason,
          feedback |-> ParseFailedFeedback]
    ELSE ReadLines(SplitLines(Strip(response_text.v), <<>>),
                   [is_valid |-> FALSE, reason |-> <<>>, feedback |-> <<>>])

-----------------------------------------------------------------------------
(* The retry loop: SlideAgent._generate_with_validation.                   *)
(* The LLM is scripted: script[n] holds what the generation call and the   *)
(* validator call of attempt n answer.  calls is the log of the calls      *)
(* made, in order, with the arguments that vary between attempts.          *)

\* a feedback text that says nothing of the verdict
FeedbackText_generic(validation) == <<"previous attempt rejected", "", "">>

FeedbackText(validation) ==
    <<"previous attempt rejected", validation.reason, validation.feedback>>

RECURSIVE Attempts(_, _, _, _, _)
Attempts(script, attempt, total_attempts, validation_feedback, calls) ==
    IF attempt > total_attempts
    THEN [content |-> NO_INFO_MESSAGE, status |-> "failed_validation",
          attempts |-> total_attempts, calls |-> calls]
    ELSE LET content == script[attempt].content
             validation == script[attempt].validation
             log == calls \o <<[call |-> "generate", attempt |-> attempt,
                                validation_feedback |-> validation_feedback],
                               [call |-> "validate", attempt |-> attempt,
                                generated_content |-> content]>>
         IN  IF validation.is_valid
             THEN [content |-> content, status |-> "validated",
                   attempts |-> attempt, calls |-> log]
             ELSE Attempts(script, attempt + 1, total_attempts,
                           IF attempt < total_attempts
                           THEN FeedbackText(validation)
                           ELSE validation_feedback,
                           log)

\* a budget of max_retries attempts instead of 1 + max_retries
_generate_with_validation_retries_only(max_retries, script) ==
    Attempts(script, 1, max_retries, <<>>, <<>>)

\* on exhaustion, the last generated text instead of the refusal literal
_generate_with_validation_returns_last(max_retries, script) ==
    LET r == Attempts(script, 1, 1 + max_retries, <<>>, <<>>)
    IN  IF r.status = "failed_validation"
        THEN [r EXCEPT !.content = script[1 + max_retries].content]
        ELSE r

_generate_with_validation(max_retries, script) ==
    Attempts(script, 1, 1 + max_retries, <<>>, <<>>)

-----------------------------------------------------------------------------
(* SlideAgent.generate_slide.  results[i] is what                          *)
(* _generate_with_validation returns for object i (unused for a title).    *)

\* a slide that is marked completed only when no object failed validation
generate_slide_unless_failed(slide, results) ==
    LET objs == slide["slide_objects"]
        done(i) ==
            IF _is_title_object(objs[i])
            THEN SetKey(SetKey(objs[i],
                     "generated_content", _generate_title(objs[i]["object_name"])),
                     "validation_status", "skipped")
            ELSE SetKey(SetKey(SetKey(objs[i],
                     "generated_content", results[i].content),
                     "validation_status", results[i].status),
                     "validation_attempts", results[i].attempts)
        failed == \E i \in 1..Len(objs) :
                      ~_is_title_object(objs[i]) /\ results[i].status = "failed_validation"
        processed == SetKey(slide, "slide_objects", [i \in 1..Len(objs) |-> done(i)])
    IN  IF failed THEN processed ELSE SetKey(processed, "generation_status", "completed")

\* a slide whose objects do not get validation_attempts
generate_slide_no_attempts(slide, results) ==
    LET objs == slide["slide_objects"]
        done(i) ==
            IF _is_title_object(objs[i])
            THEN SetKey(SetKey(objs[i],
                     "generated_content", _generate_title(objs[i]["object_name"])),
                     "validation_status", "skipped")
            ELSE SetKey(SetKey(objs[i],
                     "generated_content", results[i].content),
                     "validation_status", results[i].status)
    IN  SetKey(SetKey(slide, "slide_objects", [i \in 1..Len(objs) |-> done(i)]),
               "generation_status", "completed")

\* the LLM calls generate_slide makes, in order: those of the retry loop of
\* each object that is no title
RECURSIVE generate_slide_calls(_, _, _)
generate_slide_calls(slide, results, i) ==
    IF i > Len(slide["slide_objects"]) THEN <<>>
    ELSE (IF _is_title_object(slide["slide_objects"][i]) THEN <<>>
          ELSE [n \in 1..Len(results[i].calls) |->
                   [object |-> i, call |-> results[i].calls[n].call]])
         \o generate_slide_calls(slide, results, i + 1)

generate_slide(slide, results) ==
    LET objs == slide["slide_objects"]
        done(i) ==
            IF _is_title_object(objs[i])
            THEN SetKey(SetKey(objs[i],
                     "generated_content", _generate_title(objs[i]["object_name"])),
                     "validation_status", "skipped")
            ELSE SetKey(SetKey(SetKey(objs[i],
                     "generated_content", results[i].content),
                     "validation_status", results[i].status),
                     "validation_attempts", results[i].attempts)
    IN  SetKey(SetKey(slide, "slide_objects", [i \in 1..Len(objs) |-> done(i)]),
               "generation_status", "completed")

-----------------------------------------------------------------------------
(* RevisionManager.  Each method is an operator from the manager (self)    *)
(* and the arguments to [self |-> the manager afterwards, ret |-> the      *)
(* value returned].                                                        *)

NewRevisionManager == [revisions |-> <<>>, current_revision_id |-> 0]

\* xs[-n:] for n > 0
LastN(xs, n) == IF Len(xs) <= n THEN xs ELSE SubSeq(xs, Len(xs) - n + 1, Len(xs))

\* pruning that keeps the newest MAX_REVISIONS entries and drops the first one
save_revision_no_anchor(self, deck, action, description) ==
    LET id == self.current_revision_id + 1
        revision == [revision_id |-> id, action |-> action,
                     description |-> description, snapshot |-> deepcopy(deck)]
        appended == Append(self.revisions, revision)
    IN  [self |-> [revisions |-> LastN(appended, MAX_REVISIONS),
                   current_revision_id |-> id],
         ret |-> id]

\* an id taken from the length of the list instead of the counter
save_revision_len_id(self, deck, action, description) ==
    LET id == Len(self.revisions) + 1
        revision == [revision_id |-> id, action |-> action,
                     description |-> description, snapshot |-> deepcopy(deck)]
        appended == Append(self.revisions, revision)
        kept == IF Len(appended) > MAX_REVISIONS
                THEN <<appended[1]>> \o LastN(appended, MAX_REVISIONS - 1)
                ELSE appended
    IN  [self |-> [revisions |-> kept, current_revision_id |-> id], ret |-> id]

save_revision(self, deck, action, description) ==
    LET id == self.current_revision_id + 1
        revision == [revision_id |-> id, action |-> action,
                     description |-> description, snapshot |-> deepcopy(deck)]
        appended == Append(self.revisions, revision)
        kept == IF Len(appended) > MAX_REVISIONS
                THEN <<appended[1]>> \o LastN(appended, MAX_REVISIONS - 1)
                ELSE appended
    IN  [self |-> [revisions |-> kept, current_revision_id |-> id], ret |-> id]

\* a lookup by position, revisions[revision_id - 1], instead of by id
get_revision_by_index(self, revision_id) ==
    IF revision_id \in 1..Len(self.revisions) THEN self.revisions[revision_id] ELSE None

get_revision(self, revision_id) ==
    LET hits == {i \in 1..Len(self.revisions) :
                    self.revisions[i].revision_id = revision_id}
    IN  IF hits = {} THEN None
        ELSE self.revisions[CHOOSE i \in hits : \A j \in hits : i <= j]

\* a restore that drops the revisions after the restored one
restore_revision_truncating(self, revision_id) ==
    LET rev == get_revision(self, revision_id)
        kept == SelectSeq(self.revisions, LAMBDA r : r.revision_id <= revision_id)
    IN  [self |-> IF rev = None THEN self ELSE [self EXCEPT !.revisions = kept],
         ret |-> IF rev = None THEN None ELSE deepcopy(rev.snapshot)]

restore_revision(self, revision_id) ==
    LET rev == get_revision(self, revision_id)
    IN  [self |-> self,
         ret |-> IF rev = None THEN None ELSE deepcopy(rev.snapshot)]

\* str(n) of a revision id, digit by digit
RECURSIVE Digits(_)
Digits(n) == IF n < 10 THEN <<Str(n)>> ELSE Digits(n \div 10) \o <<Str(n % 10)>>

\* the f-string of line 53, as a sequence of symbols; the timestamp is not
\* part of the model and is written "timestamp", the long dash " - "
Choice(rev) ==
    <<"[", "גרסה", " ">> \o Digits(rev.revision_id)
        \o <<"]", " ", "timestamp", " - ", rev.action, ": ", rev.description>>

\* the entries in the order of the list, oldest first
get_revision_choices_oldest_first(self) ==
    [i \in 1..Len(self.revisions) |-> Choice(self.revisions[i])]

get_revision_choices(self) ==
    [i \in 1..Len(self.revisions) |->
        Choice(self.revisions[Len(self.revisions) + 1 - i])]

-----------------------------------------------------------------------------
(* apply_edits_to_skeleton.  scope_slide_num is only tested for truth, so  *)
(* its default None is written "" (both are false in Python).  edit_data   *)
(* is what json.loads returned, so it carries its types: the call returns  *)
(* [deck, ret, raised], raised naming the exception that left the call     *)
(* ("" for none) and deck being the live deck at that moment, which the    *)
(* loop changes in place.                                                  *)

\* str(d.get("slide_num", ""))
SlideNumStr(d) == IF "slide_num" \in DOMAIN d THEN Str(d["slide_num"]) ELSE ""

\* the last pair in slide order, then object order
FirstPair_last(pairs) ==
    CHOOSE p \in pairs :
        \A q \in pairs : p[1] > q[1] \/ (p[1] = q[1] /\ p[2] >= q[2])

\* the first pair in slide order, then object order
FirstPair(pairs) ==
    CHOOSE p \in pairs :
        \A q \in pairs : p[1] < q[1] \/ (p[1] = q[1] /\ p[2] <= q[2])

Positions(deck) ==
    UNION {{<<si, oi>> : oi \in 1..Len(Get(deck["slides"][si], "slide_objects", <<>>))} :
              si \in 1..Len(deck["slides"])}

ObjAt(deck, p) == deck["slides"][p[1]]["slide_objects"][p[2]]

\* a write that also starts validation_attempts again
WriteEdit_resets_attempts(deck, p, new_content) ==
    LET slide == deck["slides"][p[1]]
        obj == SetKey(SetKey(SetKey(slide["slide_objects"][p[2]],
                   "generated_content", new_content),
                   "validation_status", "edited_by_agent"),
                   "validation_attempts", 0)
        objs == [slide["slide_objects"] EXCEPT ![p[2]] = obj]
    IN  SetKey(deck, "slides",
               [deck["slides"] EXCEPT ![p[1]] = SetKey(slide, "slide_objects", objs)])

\* obj["generated_content"] = new_content; obj["validation_status"] = "edited_by_agent"
WriteEdit(deck, p, new_content) ==
    LET slide == deck["slides"][p[1]]
        obj == SetKey(SetKey(slide["slide_objects"][p[2]],
                   "generated_content", new_content),
                   "validation_status", "edited_by_agent")
        objs == [slide["slide_objects"] EXCEPT ![p[2]] = obj]
    IN  SetKey(deck, "slides",
               [deck["slides"] EXCEPT ![p[1]] = SetKey(slide, "slide_objects", objs)])

\* a Pass 1 that does not compare slide numbers
Pass1Hits_any_slide(deck, edit_slide_num, edit_object_id, edit_object_name) ==
    {p \in Positions(deck) :
        \/ edit_object_id # "" /\ Get(ObjAt(deck, p), "object_id", "") = edit_object_id
        \/ edit_object_name # <<>>
             /\ Get(ObjAt(deck, p), "object_name", <<>>) = edit_object_name}

\* Pass 1: slide_num, then object_id or object_name
Pass1Hits(deck, edit_slide_num, edit_object_id, edit_object_name) ==
    {p \in Positions(deck) :
        /\ SlideNumStr(deck["slides"][p[1]]) = edit_slide_num
        /\ \/ edit_object_id # "" /\ Get(ObjAt(deck, p), "object_id", "") = edit_object_id
           \/ edit_object_name # <<>>
                /\ Get(ObjAt(deck, p), "object_name", <<>>) = edit_object_name}

\* no fallback pass
Pass2Hits_none(deck, edit_object_name) == {}

\* Pass 2: object_name across all slides
Pass2Hits(deck, edit_object_name) ==
    {p \in Positions(deck) : Get(ObjAt(deck, p), "object_name", <<>>) = edit_object_name}

\* an iteration that matches against the slide_num the edit proposes, scoped or not
apply_edit_ignores_scope(deck, edit, scope_slide_num) ==
    LET edit_slide_num == SlideNumStr(edit)
        edit_object_id == Get(edit, "object_id", "")
        edit_object_name == Get(edit, "object_name", <<>>)
        new_content == Get(edit, "new_content", <<>>)
        hits1 == Pass1Hits(deck, edit_slide_num, edit_object_id, edit_object_name)
        hits2 == Pass2Hits(deck, edit_object_name)
    IN  IF hits1 # {}
        THEN [deck |-> WriteEdit(deck, FirstPair(hits1), new_content), applied |-> 1]
        ELSE IF edit_object_name # <<>> /\ hits2 # {}
             THEN [deck |-> WriteEdit(deck, FirstPair(hits2), new_content), applied |-> 1]
             ELSE [deck |-> deck, applied |-> 0]

\* one iteration of the loop over edit_data["edits"]
apply_edit(deck, edit, scope_slide_num) ==
    LET edit_slide_num == IF scope_slide_num # "" THEN scope_slide_num
                          ELSE SlideNumStr(edit)
        edit_object_id == Get(edit, "object_id", "")
        edit_object_name == Get(edit, "object_name", <<>>)
        new_content == Get(edit, "new_content", <<>>)
        hits1 == Pass1Hits(deck, edit_slide_num, edit_object_id, edit_object_name)
        hits2 == Pass2Hits(deck, edit_object_name)
    IN  IF hits1 # {}
        THEN [deck |-> WriteEdit(deck, FirstPair(hits1), new_content), applied |-> 1]
        ELSE IF edit_object_name # <<>> /\ hits2 # {}
             THEN [deck |-> WriteEdit(deck, FirstPair(hits2), new_content), applied |-> 1]
             ELSE [deck |-> deck, applied |-> 0]

Raised(deck, exception) == [deck |-> deck, ret |-> None, raised |-> exception]

\* the loop over the edits; edit.get on an item that is no dict raises
RECURSIVE ApplyEdits(_, _, _, _)
ApplyEdits(deck, edits, scope_slide_num, applied_count) ==
    IF edits = <<>> THEN [deck |-> deck, ret |-> applied_count, raised |-> ""]
    ELSE IF Head(edits).type # "dict" THEN Raised(deck, "AttributeError")
    ELSE LET one == apply_edit(deck, Fields(Head(edits)), scope_slide_num)
         IN  ApplyEdits(one.deck, Tail(edits), scope_slide_num,
                        applied_count + one.applied)

apply_edits_to_skeleton(deck, edit_data, scope_slide_num) ==
    IF edit_data.type # "dict" THEN Raised(deck, "AttributeError")
    ELSE LET edits == Get(edit_data.v, "edits", PyList(<<>>))
         IN  CASE edits.type = "list" -> ApplyEdits(deck, edits.v, scope_slide_num, 0)
               \* the items of a str are str, those of a dict its keys
               [] edits.type = "str" ->
                     IF edits.v = "" THEN ApplyEdits(deck, <<>>, scope_slide_num, 0)
                     ELSE Raised(deck, "AttributeError")
               [] edits.type = "dict" ->
                     IF DOMAIN edits.v = {} THEN ApplyEdits(deck, <<>>, scope_slide_num, 0)
                     ELSE Raised(deck, "AttributeError")
               [] OTHER -> Raised(deck, "TypeError")

-----------------------------------------------------------------------------
(* The handlers of the web application.  Each is an operator from the      *)
(* deck_state fields it reads and its inputs to the fields afterwards and  *)
(* the message it returns.                                                 *)

\* get_slide_by_num
get_slide_by_num(deck, slide_num) ==
    LET hits == {i \in 1..Len(deck["slides"]) : SlideNumStr(deck["slides"][i]) = slide_num}
    IN  IF deck = None \/ hits = {} THEN None
        ELSE deck["slides"][CHOOSE i \in hits : \A j \in hits : i <= j]

\* a template file whose content json.loads rejects
InvalidJSONFile == [invalid_json |-> TRUE]

\* what load_and_generate leaves and returns: the deck_state fields, the
\* status message and the exception that left the handler ("" when it returned)
Loaded(sk, rm, msg, raised) ==
    [skeleton |-> sk, revision_manager |-> rm, msg |-> msg, raised |-> raised]

\* a load that saves the generated deck in the manager it finds
load_and_generate_keeps_history(sk, rm, file, results) ==
    IF file = None THEN Loaded(sk, rm, "no template", "")
    ELSE IF file = InvalidJSONFile THEN Loaded(sk, rm, "", "JSONDecodeError")
    ELSE IF "slides" \notin DOMAIN file
    THEN Loaded(file, NewRevisionManager, "", "KeyError")
    ELSE LET generated ==
                 SetKey(file, "slides",
                        [si \in 1..Len(file["slides"]) |->
                            generate_slide(file["slides"][si], results[si])])
             saved == save_revision(rm, generated, "create", "initial")
         IN  Loaded(generated, saved.self, "created", "")

\* load_and_generate; file is what json.loads makes of the content of the
\* template file (or InvalidJSONFile), results[si][oi] the outcome of the
\* retry loop for that object.  json.loads raises before deck_state is
\* touched; skeleton["slides"] raises after deck_state was filled with the
\* new deck and a new RevisionManager.
load_and_generate(sk, rm, file, results) ==
    IF file = None THEN Loaded(sk, rm, "no template", "")
    ELSE IF file = InvalidJSONFile THEN Loaded(sk, rm, "", "JSONDecodeError")
    ELSE IF "slides" \notin DOMAIN file
    THEN Loaded(file, NewRevisionManager, "", "KeyError")
    ELSE LET generated ==
                 SetKey(file, "slides",
                        [si \in 1..Len(file["slides"]) |->
                            generate_slide(file["slides"][si], results[si])])
             saved == save_revision(NewRevisionManager, generated, "create", "initial")
         IN  Loaded(generated, saved.self, "created", "")

\* what an edit handler leaves and returns: the deck_state fields, the
\* assistant message with the str(e) it quotes, the exception that left the
\* handler ("" when it returned) and the edit_data it parsed (None for none)
Handled(sk, rm, msg, cause, raised, edit_data) ==
    [skeleton |-> sk, revision_manager |-> rm, msg |-> msg, cause |-> cause,
     raised |-> raised, edit_data |-> edit_data]

\* except (json.JSONDecodeError, KeyError)
Caught == {"JSONDecodeError", "KeyError"}

\* a try block whose handler leaves JSONDecodeError out
EditAndSave_KeyError_only(sk, rm, raw_response, scope_slide_num, action) ==
    LET parsed == parse_llm_json(raw_response)
        applied == apply_edits_to_skeleton(sk, parsed.ret, scope_slide_num)
        summary == Get(parsed.ret.v, "summary", PyStr("")).v
    IN  IF parsed.raised # ""
        THEN Handled(sk, rm, "", <<>>, parsed.raised, None)
        ELSE IF applied.raised # ""
        THEN Handled(applied.deck, rm, "", <<>>, applied.raised, parsed.ret)
        ELSE IF applied.ret > 0
        THEN Handled(applied.deck,
                     save_revision(rm, applied.deck, action, summary).self,
                     "updated", <<>>, "", parsed.ret)
        ELSE Handled(applied.deck, rm, "nothing applied", <<>>, "", parsed.ret)

\* the try block shared by deck_chat_edit and slide_chat_edit, from the
\* answer of call_edit_llm on
EditAndSave(sk, rm, raw_response, scope_slide_num, action) ==
    LET parsed == parse_llm_json(raw_response)
        applied == apply_edits_to_skeleton(sk, parsed.ret, scope_slide_num)
        summary == Get(parsed.ret.v, "summary", PyStr("")).v
    IN  IF parsed.raised # ""
        THEN IF parsed.raised \in Caught
             THEN Handled(sk, rm, "could not process", <<parsed.msg, parsed.pos>>,
                          "", None)
             ELSE Handled(sk, rm, "", <<>>, parsed.raised, None)
        ELSE IF applied.raised # ""
        THEN IF applied.raised \in Caught
             THEN Handled(applied.deck, rm, "could not process", <<applied.raised>>,
                          "", parsed.ret)
             ELSE Handled(applied.deck, rm, "", <<>>, applied.raised, parsed.ret)
        ELSE IF applied.ret > 0
        THEN Handled(applied.deck,
                     save_revision(rm, applied.deck, action, summary).self,
                     "updated", <<>>, "", parsed.ret)
        ELSE Handled(applied.deck, rm, "nothing applied", <<>>, "", parsed.ret)

deck_chat_edit(sk, rm, raw_response) ==
    IF sk = None
    THEN Handled(sk, rm, "no deck", <<>>, "", None)
    ELSE EditAndSave(sk, rm, raw_response, "", "edit")

\* parse_slide_num_from_selection: <<the group of the pattern>>, or <<>> for None
parse_slide_num_from_selection(selection) ==
    IF selection.kind = "slide" THEN <<selection.num>> ELSE <<>>

slide_chat_edit(sk, rm, slide_selection, raw_response) ==
    IF sk = None
    THEN Handled(sk, rm, "no deck", <<>>, "", None)
    ELSE IF slide_selection.kind = "empty"
    THEN Handled(sk, rm, "no slide selected", <<>>, "", None)
    ELSE LET slide_num == parse_slide_num_from_selection(slide_selection)
         IN  IF slide_num = <<>> \/ get_slide_by_num(sk, slide_num[1]) = None
             THEN Handled(sk, rm, "slide not found", <<>>, "", None)
             ELSE EditAndSave(sk, rm, raw_response, slide_num[1],
                              "edit slide " \o slide_num[1])

\* a restore that returns the restored JSON and leaves deck_state["skeleton"] alone
ui_restore_revision_no_assign(sk, rm, revision_selection) ==
    IF revision_selection.kind = "empty" \/ sk = None
    THEN [skeleton |-> sk, revision_manager |-> rm, msg |-> "no revision selected"]
    ELSE IF revision_selection.kind # "revision"
    THEN [skeleton |-> sk, revision_manager |-> rm, msg |-> "no revision number"]
    ELSE LET restored == restore_revision(rm, revision_selection.id)
         IN  [skeleton |-> sk, revision_manager |-> restored.self,
              msg |-> IF restored.ret = None THEN "revision not found" ELSE "restored"]

\* restore_revision of the application (not the method of RevisionManager)
ui_restore_revision(sk, rm, revision_selection) ==
    IF revision_selection.kind = "empty" \/ sk = None
    THEN [skeleton |-> sk, revision_manager |-> rm, msg |-> "no revision selected"]
    ELSE IF revision_selection.kind # "revision"
    THEN [skeleton |-> sk, revision_manager |-> rm, msg |-> "no revision number"]
    ELSE LET restored == restore_revision(rm, revision_selection.id)
         IN  IF restored.ret = None
             THEN [skeleton |-> sk, revision_manager |-> restored.self,
                   msg |-> "revision not found"]
             ELSE [skeleton |-> restored.ret, revision_manager |-> restored.self,
                   msg |-> "restored"]

-----------------------------------------------------------------------------
(* Inputs *)

NameTitle1 == <<"k", "w", "t", "r", "t", " ", "1">>
NameBg == <<"b", "g">>
NameTitle2 == <<"t", "t", " ", "k", "w", "t", "r", "t", " ", "2">>
NameSum == <<"s", "u", "m">>
NameUnknown == <<"z">>

TemplateObject(id, name) ==
    [object_id |-> id, object_name |-> name, object_description |-> "format"]

\* a deck template: object_id repeats between slides, object_name is unique
Template ==
    [slides |-> <<
        [slide_num |-> 1, slide_description |-> "intro",
         slide_objects |-> <<TemplateObject("Title 1", NameTitle1),
                             TemplateObject("Rectangle 2", NameBg)>>],
        [slide_num |-> 2, slide_description |-> "summary",
         slide_objects |-> <<TemplateObject("Title 1", NameTitle2),
                             TemplateObject("Rectangle 2", NameSum)>>]>>]

\* a template that breaks the uniqueness of object_name (a data entry error)
TemplateDupName ==
    [slides |-> <<
        [slide_num |-> 1, slide_description |-> "intro",
         slide_objects |-> <<TemplateObject("Title 1", NameTitle1),
                             TemplateObject("Rectangle 2", NameBg)>>],
        [slide_num |-> 2, slide_description |-> "summary",
         slide_objects |-> <<TemplateObject("Title 1", NameTitle2),
                             TemplateObject("Rectangle 3", NameBg)>>]>>]

\* a template whose second slide lists the body before the title
TemplateBodyFirst ==
    [slides |-> <<
        [slide_num |-> 1, slide_description |-> "intro",
         slide_objects |-> <<TemplateObject("Title 1", NameTitle1),
                             TemplateObject("Rectangle 2", NameBg)>>],
        [slide_num |-> 2, slide_description |-> "summary",
         slide_objects |-> <<TemplateObject("Rectangle 2", NameSum),
                             TemplateObject("Title 1", NameTitle2)>>]>>]

Verdicts ==
    {[is_valid |-> TRUE, reason |-> "", feedback |-> ""],
     [is_valid |-> FALSE, reason |-> "r1", feedback |-> "f1"],
     [is_valid |-> FALSE, reason |-> "r2", feedback |-> "f2"]}

\* what the LLM answers in the attempts of one run of the retry loop
Scripts(contents, verdicts) ==
    [1..(1 + MaxRetriesBound) -> [content : contents, validation : verdicts]]

\* what _generate_with_validation can return to generate_slide
LoopResult(r) == [content |-> r.content, status |-> r.status, attempts |-> r.attempts]

LoadResults ==
    {LoopResult(_generate_with_validation(DefaultMaxRetries, s)) :
        s \in Scripts({<<"g1">>}, {v \in Verdicts : v.reason # "r2"})}

\* the decks load_and_generate produces from a template
GeneratedDecks(template, results) ==
    {load_and_generate(None, NewRevisionManager, template,
                       [si \in 1..2 |-> [oi \in 1..2 |-> r[si]]]).skeleton :
        r \in [1..2 -> results]}

Edit(slide_num, id, name, content) ==
    [slide_num |-> slide_num, object_id |-> id, object_name |-> name,
     new_content |-> content]

EditData(edits) == [edits |-> edits, summary |-> "summary"]

\* an edit and an edit_data as json.loads returns them
PyEdit(edit) ==
    PyDict([k \in DOMAIN edit |->
               IF k = "slide_num" THEN PyInt(edit[k]) ELSE PyStr(edit[k])])

PyEditData(edit_data) ==
    PyDict([k \in DOMAIN edit_data |->
               IF k = "edits"
               THEN PyList([i \in 1..Len(edit_data[k]) |-> PyEdit(edit_data[k][i])])
               ELSE PyStr(edit_data[k])])

\* the JSON text of an edit and of an edit_data, in the key order of the prompt
RECURSIVE Commas(_)
Commas(parts) ==
    IF parts = <<>> THEN <<>>
    ELSE IF Len(parts) = 1 THEN parts[1]
    ELSE parts[1] \o <<Tok(",")>> \o Commas(Tail(parts))

KeysOf(d, order) == SelectSeq(order, LAMBDA k : k \in DOMAIN d)

EncodeEdit(edit) ==
    LET keys == KeysOf(edit, <<"slide_num", "object_id", "object_name", "new_content">>)
        pair(k) == <<TokStr(k), Tok(":"),
                     IF k = "slide_num" THEN TokInt(edit[k]) ELSE TokStr(edit[k])>>
    IN  <<Tok("{")>> \o Commas([i \in 1..Len(keys) |-> pair(keys[i])]) \o <<Tok("}")>>

EncodeEditData(edit_data) ==
    LET keys == KeysOf(edit_data, <<"edits", "summary">>)
        edits == edit_data["edits"]
        pair(k) == <<TokStr(k), Tok(":")>> \o
                   (IF k = "edits"
                    THEN <<Tok("[")>>
                            \o Commas([i \in 1..Len(edits) |-> EncodeEdit(edits[i])])
                            \o <<Tok("]")>>
                    ELSE <<TokStr(edit_data[k])>>)
    IN  <<Tok("{")>> \o Commas([i \in 1..Len(keys) |-> pair(keys[i])]) \o <<Tok("}")>>

\* an answer of the edit LLM: its lines and what is the matter with it
Response(kind, lines) == [kind |-> kind, lines |-> lines]

Fenced(toks) == << <<Tok("fence"), Tok("json")>>, toks, <<Tok("fence")>> >>

\* the answer cut off n tokens before its end (max_tokens reached)
Truncated(toks, n) == <<SubSeq(toks, 1, Len(toks) - n)>>

NoGen == [max_retries |-> DefaultMaxRetries, script |-> <<>>, result |-> None]

-----------------------------------------------------------------------------
(* RevisionManager alone: a caller saves the live deck, changes it in      *)
(* place between saves, and restores revisions by id.                      *)

RevDecks ==
    GeneratedDecks(Template, {r \in LoadResults : r.status = "failed_validation"})

RevEdits ==
    {EditData(<<Edit(1, "Rectangle 2", NameBg, <<"n1">>)>>),
     EditData(<<Edit(2, "Title 1", NameTitle2, <<"n1">>)>>)}

RevInit ==
    /\ skeleton \in RevDecks
    /\ revision_manager = NewRevisionManager
    /\ ret = [op |-> "init"]
    /\ gen = NoGen
    /\ heap = <<>>

RevSave ==
    /\ revision_manager.current_revision_id < MaxSaves
    /\ LET r == save_revision(revision_manager, skeleton, "edit", "summary")
       IN  /\ revision_manager' = r.self
           /\ ret' = [op |-> "save_revision", value |-> r.ret]
    /\ UNCHANGED <<skeleton, gen, heap>>

RevMutate ==
    /\ \E e \in RevEdits :
          /\ skeleton' = apply_edits_to_skeleton(skeleton, PyEditData(e), "").deck
          /\ skeleton' # skeleton
    /\ ret' = [op |-> "mutate"]
    /\ UNCHANGED <<revision_manager, gen, heap>>

\* ids to restore: the anchor, the first id pruning removes, the latest, the next
RevIds == {1, 2, revision_manager.current_revision_id,
           revision_manager.current_revision_id + 1}

RevRestore ==
    /\ \E id \in RevIds :
          LET r == restore_revision(revision_manager, id)
          IN  /\ revision_manager' = r.self
              /\ ret' = [op |-> "restore_revision", id |-> id, value |-> r.ret]
    /\ UNCHANGED <<skeleton, gen, heap>>

\* what the dropdown can hand to restore_revision of the application:
\* nothing, a text without a revision number, and the entries of the latest
\* revision, of the next one (never issued) and of the revision pruned last
\* (a stale entry)
RevSelections ==
    {[kind |-> "empty"], [kind |-> "text"]}
        \cup {[kind |-> "revision", id |-> n] :
                 n \in {revision_manager.current_revision_id,
                        revision_manager.current_revision_id + 1}
                       \cup {m \in {revision_manager.current_revision_id
                                        - MAX_REVISIONS + 1} : m > 1}}

RevUiRestore ==
    /\ \E revision_selection \in RevSelections :
          LET r == ui_restore_revision(skeleton, revision_manager, revision_selection)
          IN  /\ skeleton' = r.skeleton
              /\ revision_manager' = r.revision_manager
              /\ ret' = [op |-> "ui_restore_revision",
                         selection |-> revision_selection, msg |-> r.msg]
    /\ UNCHANGED <<gen, heap>>

RevNext == RevSave \/ RevMutate \/ RevRestore \/ RevUiRestore

SpecRev == RevInit /\ [][RevNext]_vars

-----------------------------------------------------------------------------
(* The dropdown of revisions: a caller saves the live deck, changes it in  *)
(* place between saves, and lists the revisions with get_revision_choices. *)

ChoicesList ==
    /\ ret' = [op |-> "get_revision_choices",
               value |-> get_revision_choices(revision_manager)]
    /\ UNCHANGED <<skeleton, revision_manager, gen, heap>>

ChoicesNext == RevSave \/ RevMutate \/ ChoicesList

SpecChoices == RevInit /\ [][ChoicesNext]_vars

-----------------------------------------------------------------------------
(* RevisionManager with the decks held by reference: the live deck is an   *)
(* object of the heap, save_revision stores copy.deepcopy of it, the       *)
(* restore handler makes copy.deepcopy of a snapshot the live deck, and    *)
(* the edits in between change the live object in place.                   *)

HeapInit ==
    /\ \E deck \in RevDecks : heap = <<deck>>
    /\ skeleton = Ref(1)
    /\ revision_manager = NewRevisionManager
    /\ ret = [op |-> "init"]
    /\ gen = NoGen

HeapSave ==
    /\ Len(heap) < MaxCells
    /\ LET r == save_revision(revision_manager, skeleton, "edit", "summary")
       IN  /\ revision_manager' = r.self
           /\ ret' = [op |-> "save_revision", value |-> r.ret]
    /\ heap' = Allocate(skeleton)
    /\ UNCHANGED <<skeleton, gen>>

\* apply_edits_to_skeleton writes into the object deck_state["skeleton"] refers to
HeapMutate ==
    /\ \E e \in RevEdits :
          /\ heap' = [heap EXCEPT ![skeleton.address] =
                         apply_edits_to_skeleton(@, PyEditData(e), "").deck]
          /\ heap' # heap
    /\ ret' = [op |-> "mutate"]
    /\ UNCHANGED <<skeleton, revision_manager, gen>>

HeapRestore ==
    /\ Len(heap) < MaxCells
    /\ \E id \in 1..(revision_manager.current_revision_id + 1) :
          LET revision_selection == [kind |-> "revision", id |-> id]
              r == ui_restore_revision(skeleton, revision_manager, revision_selection)
          IN  /\ skeleton' = r.skeleton
              /\ revision_manager' = r.revision_manager
              /\ heap' = IF r.msg = "restored"
                         THEN Allocate(get_revision(revision_manager, id).snapshot)
                         ELSE heap
              /\ ret' = [op |-> "ui_restore_revision",
                         selection |-> revision_selection, msg |-> r.msg]
    /\ UNCHANGED gen

HeapNext == HeapSave \/ HeapMutate \/ HeapRestore

SpecHeap == HeapInit /\ [][HeapNext]_vars

-----------------------------------------------------------------------------
(* The application: a template is loaded and generated, the deck is edited *)
(* at deck or slide scope with what the edit LLM answers, and revisions    *)
(* are restored from the dropdown.                                         *)

\* answers of the edit LLM in the format the prompt asks for
AppEdits ==
    <<EditData(<<Edit(1, "Rectangle 2", NameBg, <<"n1">>)>>),
      EditData(<<Edit(2, "Title 1", <<>>, <<"n1">>)>>),
      EditData(<<Edit(3, "", NameSum, <<"n2">>)>>),
      EditData(<<Edit(1, "Shape 9", NameUnknown, <<"n1">>)>>),
      EditData(<<Edit(2, "Rectangle 2", NameSum, <<"n1">>),
                 Edit(1, "Shape 9", NameUnknown, <<"n2">>)>>),
      EditData(<<>>)>>

\* the answers of the edit LLM: well-formed, the second inside a Markdown fence
AppResponses ==
    [i \in 1..Len(AppEdits) |->
        Response("json", IF i = 2 THEN Fenced(EncodeEditData(AppEdits[i]))
                         ELSE <<EncodeEditData(AppEdits[i])>>)]

SlideSelections ==
    {[kind |-> "empty"], [kind |-> "text"]}
        \cup {[kind |-> "slide", num |-> n] : n \in {"2", "3"}}

RevisionSelections ==
    {[kind |-> "empty"], [kind |-> "text"]}
        \cup {[kind |-> "revision", id |-> n] : n \in 0..(MaxAppSaves + 1)}

Init ==
    /\ skeleton = None
    /\ revision_manager = NewRevisionManager
    /\ ret = [op |-> "init"]
    /\ gen = NoGen
    /\ heap = <<>>

Load ==
    /\ \E file \in {None, Template} :
       \E result \in LoadResults :
          LET results == [si \in 1..2 |-> [oi \in 1..2 |-> result]]
              r == load_and_generate(skeleton, revision_manager, file, results)
          IN  /\ skeleton' = r.skeleton
              /\ revision_manager' = r.revision_manager
              /\ ret' = [op |-> "load_and_generate", msg |-> r.msg,
                         replaced |-> revision_manager.current_revision_id]
    /\ UNCHANGED <<gen, heap>>

DeckEdit ==
    /\ revision_manager.current_revision_id < MaxAppSaves
    /\ \E i \in 1..Len(AppResponses) :
          LET r == deck_chat_edit(skeleton, revision_manager, AppResponses[i].lines)
          IN  /\ skeleton' = r.skeleton
              /\ revision_manager' = r.revision_manager
              /\ ret' = [op |-> "deck_chat_edit", response |-> AppResponses[i].kind,
                         edit_data |-> r.edit_data, scope |-> "", msg |-> r.msg,
                         cause |-> r.cause, raised |-> r.raised]
    /\ UNCHANGED <<gen, heap>>

SlideEdit ==
    /\ revision_manager.current_revision_id < MaxAppSaves
    /\ \E slide_selection \in SlideSelections :
       \E i \in 1..Len(AppResponses) :
          LET r == slide_chat_edit(skeleton, revision_manager, slide_selection,
                                   AppResponses[i].lines)
          IN  /\ skeleton' = r.skeleton
              /\ revision_manager' = r.revision_manager
              /\ ret' = [op |-> "slide_chat_edit", response |-> AppResponses[i].kind,
                         edit_data |-> r.edit_data,
                         scope |-> IF slide_selection.kind = "slide"
                                   THEN slide_selection.num ELSE "",
                         msg |-> r.msg, cause |-> r.cause, raised |-> r.raised]
    /\ UNCHANGED <<gen, heap>>

Restore ==
    /\ \E revision_selection \in RevisionSelections :
          LET r == ui_restore_revision(skeleton, revision_manager, revision_selection)
          IN  /\ skeleton' = r.skeleton
              /\ revision_manager' = r.revision_manager
              /\ ret' = [op |-> "restore_revision", selection |-> revision_selection,
                         msg |-> r.msg]
    /\ UNCHANGED <<gen, heap>>

Next == Load \/ DeckEdit \/ SlideEdit \/ Restore

Spec == Init /\ [][Next]_vars

-----------------------------------------------------------------------------
(* The edit handlers on a freshly generated deck, against answers of the   *)
(* edit LLM that are cut off, are prose, leave keys out or have another    *)
(* shape than the prompt asks for.                                         *)

AnswerEdit == Edit(1, "Rectangle 2", NameBg, <<"n1">>)

Answers ==
    <<Response("json", <<EncodeEditData(EditData(<<AnswerEdit>>))>>),
      Response("json", Fenced(EncodeEditData(EditData(<<Edit(2, "Title 1", <<>>, <<"n2">>)>>)))),
      Response("truncated", Truncated(EncodeEditData(EditData(<<AnswerEdit>>)), 1)),
      Response("truncated", Truncated(EncodeEditData(EditData(<<AnswerEdit>>)), 5)),
      Response("truncated", <<>>),
      Response("prose", << <<Tok("Sorry"), Tok("{"), Tok("}")>> >>),
      Response("trailing prose",
               <<EncodeEditData(EditData(<<AnswerEdit>>)), <<Tok("Done")>> >>),
      Response("one line fence",
               << <<Tok("fence")>> \o EncodeEditData(EditData(<<AnswerEdit>>))
                  \o <<Tok("fence")>> >>),
      Response("missing keys", <<EncodeEditData([summary |-> "summary"])>>),
      Response("missing keys",
               <<EncodeEditData([edits |-> <<[slide_num |-> 1,
                                              new_content |-> <<"n1">>]>>])>>),
      Response("list", << <<Tok("[")>> \o EncodeEdit(AnswerEdit) \o <<Tok("]")>> >>),
      Response("edits null",
               << <<Tok("{"), TokStr("edits"), Tok(":"), Tok("null"), Tok("}")>> >>),
      Response("edits str",
               << <<Tok("{"), TokStr("edits"), Tok(":"), TokStr("none"), Tok("}")>> >>),
      Response("item no dict",
               << <<Tok("{"), TokStr("edits"), Tok(":"), Tok("[")>>
                  \o EncodeEdit(AnswerEdit)
                  \o <<Tok(","), TokStr("and so on"), Tok("]"), Tok("}")>> >>)>>

AnswerInit ==
    /\ \E result \in LoadResults :
          LET r == load_and_generate(None, NewRevisionManager, Template,
                                     [si \in 1..2 |-> [oi \in 1..2 |-> result]])
          IN  /\ skeleton = r.skeleton
              /\ revision_manager = r.revision_manager
    /\ ret = [op |-> "init"]
    /\ gen = NoGen
    /\ heap = <<>>

AnswerDeckEdit ==
    /\ revision_manager.current_revision_id < MaxAnswerSaves
    /\ \E i \in 1..Len(Answers) :
          LET r == deck_chat_edit(skeleton, revision_manager, Answers[i].lines)
          IN  /\ skeleton' = r.skeleton
              /\ revision_manager' = r.revision_manager
              /\ ret' = [op |-> "deck_chat_edit", response |-> Answers[i].kind,
                         edit_data |-> r.edit_data, scope |-> "", msg |-> r.msg,
                         cause |-> r.cause, raised |-> r.raised]
    /\ UNCHANGED <<gen, heap>>

AnswerSlideEdit ==
    /\ revision_manager.current_revision_id < MaxAnswerSaves
    /\ \E slide_selection \in SlideSelections :
       \E i \in 1..Len(Answers) :
          LET r == slide_chat_edit(skeleton, revision_manager, slide_selection,
                                   Answers[i].lines)
          IN  /\ skeleton' = r.skeleton
              /\ revision_manager' = r.revision_manager
              /\ ret' = [op |-> "slide_chat_edit", response |-> Answers[i].kind,
                         edit_data |-> r.edit_data,
                         scope |-> IF slide_selection.kind = "slide"
                                   THEN slide_selection.num ELSE "",
                         msg |-> r.msg, cause |-> r.cause, raised |-> r.raised]
    /\ UNCHANGED <<gen, heap>>

AnswerNext == AnswerDeckEdit \/ AnswerSlideEdit

SpecAnswer == AnswerInit /\ [][AnswerNext]_vars

-----------------------------------------------------------------------------
(* load_and_generate on a session that already holds a deck, edited or     *)
(* not: the template file is missing, well-formed, no JSON, or JSON        *)
(* without slides.                                                         *)

\* a template file that is JSON and has no "slides"
TemplateNoSlides == [title |-> "deck"]

TemplateFiles == {None, Template, InvalidJSONFile, TemplateNoSlides}

ReloadEdit ==
    /\ ret.op # "load_and_generate"
    /\ revision_manager.current_revision_id < MaxAppSaves
    /\ \E i \in 1..Len(AppResponses) :
          LET r == deck_chat_edit(skeleton, revision_manager, AppResponses[i].lines)
          IN  /\ skeleton' = r.skeleton
              /\ revision_manager' = r.revision_manager
              /\ ret' = [op |-> "deck_chat_edit", edit_data |-> r.edit_data,
                         msg |-> r.msg]
    /\ UNCHANGED <<gen, heap>>

ReloadFile ==
    /\ ret.op # "load_and_generate"
    /\ \E file \in TemplateFiles :
       \E result \in LoadResults :
          LET results == [si \in 1..2 |-> [oi \in 1..2 |-> result]]
              r == load_and_generate(skeleton, revision_manager, file, results)
          IN  /\ skeleton' = r.skeleton
              /\ revision_manager' = r.revision_manager
              /\ ret' = [op |-> "load_and_generate", file |-> file,
                         msg |-> r.msg, raised |-> r.raised]
    /\ UNCHANGED <<gen, heap>>

ReloadNext == ReloadEdit \/ ReloadFile

SpecReload == AnswerInit /\ [][ReloadNext]_vars

-----------------------------------------------------------------------------
(* slide_chat_edit alone: one request on a slide of a freshly generated    *)
(* deck, the edit LLM answering with any one well-formed edit.             *)

ScopedSelections == {[kind |-> "slide", num |-> n] : n \in {"1", "2"}}

ScopedEdits ==
    {Edit(n, id, name, <<"n1">>) :
        n \in {1, 2}, id \in {"Title 1", "Rectangle 2", "Shape 9", ""},
        name \in {NameTitle1, NameBg, NameSum, NameUnknown, <<>>}}

ScopedEdit ==
    /\ ret.op = "init"
    /\ \E slide_selection \in ScopedSelections :
       \E e \in ScopedEdits :
          LET r == slide_chat_edit(skeleton, revision_manager, slide_selection,
                                   <<EncodeEditData(EditData(<<e>>))>>)
          IN  /\ skeleton' = r.skeleton
              /\ revision_manager' = r.revision_manager
              /\ ret' = [op |-> "slide_chat_edit", edit |-> e,
                         scope |-> slide_selection.num,
                         msg |-> r.msg, raised |-> r.raised]
    /\ UNCHANGED <<gen, heap>>

ScopedNext == ScopedEdit

SpecScoped == AnswerInit /\ [][ScopedNext]_vars

-----------------------------------------------------------------------------
(* apply_edits_to_skeleton alone: one call on a generated deck *)

EditDecks ==
    GeneratedDecks(Template, {r \in LoadResults : r.attempts = 1})
        \cup GeneratedDecks(TemplateDupName, {r \in LoadResults : r.attempts = 1})
        \cup GeneratedDecks(TemplateBodyFirst, {r \in LoadResults : r.attempts = 1})

EditSlideNums == {1, 2, 3}
EditObjectIds == {"Title 1", "Rectangle 2", "Shape 9", ""}
EditObjectNames == {NameTitle1, NameBg, NameSum, NameUnknown, <<>>}
EditContents == {<<"n1">>, <<"n2">>}

SingleEdits ==
    {Edit(n, id, name, c) :
        n \in EditSlideNums, id \in EditObjectIds, name \in EditObjectNames,
        c \in EditContents}

EditInputs ==
    {EditData(<<e>>) : e \in SingleEdits}
        \cup {EditData(<<e, Edit(1, "Title 1", <<>>, <<"n2">>)>>) :
                 e \in {x \in SingleEdits : x.new_content = <<"n1">> /\ x.slide_num = 3}}
        \cup {EditData(<<>>), [summary |-> "summary"]}

EditScopes == {"", "1", "2"}

EditInit ==
    /\ skeleton \in EditDecks
    /\ revision_manager = NewRevisionManager
    /\ ret = [op |-> "init"]
    /\ gen = NoGen
    /\ heap = <<>>

EditApply ==
    /\ ret.op = "init"
    /\ \E edit_data \in EditInputs :
       \E scope \in EditScopes :
          LET r == apply_edits_to_skeleton(skeleton, PyEditData(edit_data), scope)
          IN  /\ skeleton' = r.deck
              /\ ret' = [op |-> "apply_edits_to_skeleton", edit_data |-> edit_data,
                         scope |-> scope, value |-> r.ret]
    /\ UNCHANGED <<revision_manager, gen, heap>>

EditNext == EditApply

SpecEdit == EditInit /\ [][EditNext]_vars

-----------------------------------------------------------------------------
(* The retry loop alone: one run against a scripted LLM *)

GenContents == {<<"g1">>, <<"g2">>, NO_INFO_MESSAGE}

GenInit ==
    /\ skeleton = None
    /\ revision_manager = NewRevisionManager
    /\ ret = [op |-> "init"]
    /\ gen \in {[max_retries |-> m, script |-> s, result |-> None] :
                   m \in 0..MaxRetriesBound, s \in Scripts(GenContents, Verdicts)}
    /\ heap = <<>>

GenRun ==
    /\ gen.result = None
    /\ gen' = [gen EXCEPT !.result = _generate_with_validation(gen.max_retries, gen.script)]
    /\ ret' = [op |-> "_generate_with_validation"]
    /\ UNCHANGED <<skeleton, revision_manager, heap>>

GenNext == GenRun

SpecGen == GenInit /\ [][GenNext]_vars

-----------------------------------------------------------------------------
(* generate_slide alone: one call on a slide of two objects, the LLM       *)
(* scripted for each object.  The slides are those of a template and those *)
(* of a deck that was generated and edited before (an exported deck loaded *)
(* again).                                                                 *)

NameInner == <<"a", "t", "t", "b">>
NamePadded == <<" ", "t", "t", " ", "m", "y", " ", " ", "k", "w", "t", "r", "t", " ">>

SlideObjects ==
    {TemplateObject("Title 1", NameTitle1),
     TemplateObject("Title 1", NameTitle2),
     TemplateObject("Title 3", NameInner),
     TemplateObject("Rectangle 2", NameBg),
     SetKey(SetKey(TemplateObject("Title 4", NamePadded),
         "generated_content", <<"m", "y">>), "validation_status", "edited_by_agent"),
     SetKey(SetKey(SetKey(TemplateObject("Rectangle 5", NameSum),
         "generated_content", <<"n1">>), "validation_status", "edited_by_agent"),
         "validation_attempts", 3)}

SlideInputs ==
    {[slide_num |-> 1, slide_description |-> "intro", slide_objects |-> <<a, b>>] :
        a \in SlideObjects, b \in SlideObjects}

SlideScripts == Scripts({<<"g1">>}, {v \in Verdicts : v.reason # "r2"})

SlideInit ==
    /\ skeleton = None
    /\ revision_manager = NewRevisionManager
    /\ ret = [op |-> "init"]
    /\ gen \in {[slide |-> s, scripts |-> <<s1, s2>>, result |-> None] :
                   s \in SlideInputs, s1 \in SlideScripts, s2 \in SlideScripts}
    /\ heap = <<>>

SlideRun ==
    /\ gen.result = None
    /\ LET results == [i \in 1..2 |->
                          _generate_with_validation(DefaultMaxRetries, gen.scripts[i])]
       IN  gen' = [gen EXCEPT !.result =
                      [slide |-> generate_slide(gen.slide, results),
                       calls |-> generate_slide_calls(gen.slide, results, 1)]]
    /\ ret' = [op |-> "generate_slide"]
    /\ UNCHANGED <<skeleton, revision_manager, heap>>

SlideNext == SlideRun

SpecSlide == SlideInit /\ [][SlideNext]_vars

-----------------------------------------------------------------------------
(* The validator alone: one answer of the validation LLM, of up to         *)
(* MaxLines lines, parsed by _parse_validation_response.                   *)

WordYes == <<"y", "e", "s">>

WordKen == <<"כ", "ן">>

\* the lines an answer is made of
AnswerLines ==
    <<TagValid \o <<" ">> \o WordYes,
      TagValid \o <<" ", "Y", "e", "s">>,
      TagValid \o <<" ">> \o WordKen,
      TagValid \o WordKen \o <<".">>,
      <<" ">> \o TagValid \o <<" ", " ">> \o WordYes \o <<" ">>,
      TagValid \o <<" ", "n", "o">>,
      TagValid \o <<" ">> \o WordYes \o <<".">>,
      TagValid \o <<" ">> \o WordYes \o <<" ">> \o TagValid,
      TagValid,
      <<"v", "a", "l", "i", "d", ":", " ">> \o WordYes,
      WordYes,
      TagReason \o <<" ", "r">>,
      TagFeedback \o <<" ", "f">>,
      <<>>>>

\* "\n".join(lines)
RECURSIVE JoinText(_)
JoinText(lines) ==
    IF lines = <<>> THEN <<>>
    ELSE IF Len(lines) = 1 THEN lines[1]
    ELSE lines[1] \o <<"\n">> \o JoinText(Tail(lines))

RECURSIVE LinesUpTo(_)
LinesUpTo(n) ==
    IF n = 0 THEN {<<>>}
    ELSE LinesUpTo(n - 1) \cup
         {Append(ls, AnswerLines[k]) :
             ls \in {x \in LinesUpTo(n - 1) : Len(x) = n - 1},
             k \in 1..Len(AnswerLines)}

\* message.content of the answer: a text
ValidatorAnswers ==
    {[lines |-> ls, content |-> PyStr(JoinText(ls))] : ls \in LinesUpTo(MaxLines)}

\* message.content of an answer without text
NoAnswer == [lines |-> <<>>, content |-> PyNone]

VerdictInit ==
    /\ skeleton = None
    /\ revision_manager = NewRevisionManager
    /\ ret = [op |-> "init"]
    /\ \/ gen \in {[answer |-> a, result |-> None] : a \in ValidatorAnswers}
       \/ gen = [answer |-> NoAnswer, result |-> None]
    /\ heap = <<>>

\* ValidatorAgent.validate from the answer on
VerdictParse ==
    /\ gen.result = None
    /\ gen' = [gen EXCEPT !.result = _parse_validation_response(gen.answer.content)]
    /\ ret' = [op |-> "_parse_validation_response"]
    /\ UNCHANGED <<skeleton, revision_manager, heap>>

VerdictNext == VerdictParse

SpecVerdict == VerdictInit /\ [][VerdictNext]_vars

-----------------------------------------------------------------------------
(* Properties of generate_slide (SpecSlide) *)

SlideDone == ret.op = "generate_slide"

ObjBefore(i) == gen.slide["slide_objects"][i]

ObjAfter(i) == gen.result.slide["slide_objects"][i]

\* what the retry loop returns for object i
LoopOf(i) == _generate_with_validation(DefaultMaxRetries, gen.scripts[i])

\* the object names of the input slides that contain a marker
TitleNames == {NameTitle1, NameTitle2, NameInner, NamePadded}

\* the title each of them stands for
TitleOf(name) ==
    CASE name = NameTitle1 -> <<"1">>
      [] name = NameTitle2 -> <<"2">>
      [] name = NameInner -> <<"a", "b">>
      [] name = NamePadded -> <<"m", "y">>
      [] OTHER -> <<>>

HasMarker(i) == ObjBefore(i)["object_name"] \in TitleNames

\* C17: when generate_slide returns, the slide has generation_status
\* completed, also when objects ended with failed_validation, and every
\* object has validation_status skipped, validated or failed_validation.
C17_CompletedAnyway ==
    SlideDone =>
        /\ "generation_status" \in DOMAIN gen.result.slide
        /\ gen.result.slide["generation_status"] = "completed"
        /\ \A i \in 1..2 :
              /\ "validation_status" \in DOMAIN ObjAfter(i)
              /\ ObjAfter(i)["validation_status"]
                    \in {"skipped", "validated", "failed_validation"}
              /\ ~HasMarker(i) => ObjAfter(i)["validation_status"] = LoopOf(i).status

\* both objects failed validation, one of them had been edited before
C17_Witness ==
    /\ SlideDone
    /\ gen.result.slide["generation_status"] = "completed"
    /\ \A i \in 1..2 : ObjAfter(i)["validation_status"] = "failed_validation"
    /\ "validation_status" \in DOMAIN ObjBefore(2)
    /\ ObjBefore(2)["validation_status"] = "edited_by_agent"

GeneratedFields == {"generated_content", "validation_status", "validation_attempts"}

\* C18 as stated: after generate_slide every object of the slide, title or
\* not, has generated_content, validation_status and validation_attempts.
C18_Original ==
    SlideDone => \A i \in 1..2 : GeneratedFields \subseteq DOMAIN ObjAfter(i)

\* C18 (amended): generate_slide writes generated_content, validation_status
\* and validation_attempts, as the retry loop returned them, to every object
\* that is no title; to a title it writes generated_content and
\* validation_status and leaves validation_attempts as it was (absent when
\* the object had none); no other field of an object changes.
C18_WritesBack ==
    SlideDone =>
        \A i \in 1..2 :
            /\ \A k \in DOMAIN ObjBefore(i) \ GeneratedFields :
                  k \in DOMAIN ObjAfter(i) /\ ObjAfter(i)[k] = ObjBefore(i)[k]
            /\ ~HasMarker(i) =>
                  /\ DOMAIN ObjAfter(i) = DOMAIN ObjBefore(i) \cup GeneratedFields
                  /\ ObjAfter(i)["generated_content"] = LoopOf(i).content
                  /\ ObjAfter(i)["validation_status"] = LoopOf(i).status
                  /\ ObjAfter(i)["validation_attempts"] = LoopOf(i).attempts
            /\ HasMarker(i) =>
                  /\ DOMAIN ObjAfter(i) = DOMAIN ObjBefore(i)
                        \cup {"generated_content", "validation_status"}
                  /\ "validation_attempts" \in DOMAIN ObjBefore(i)
                        => ObjAfter(i)["validation_attempts"]
                              = ObjBefore(i)["validation_attempts"]

\* a title of the template next to a body that was validated at the second
\* attempt over an older count of three
C18_Witness ==
    /\ SlideDone
    /\ ObjBefore(1)["object_name"] = NameTitle1
    /\ "validation_attempts" \notin DOMAIN ObjAfter(1)
    /\ ObjAfter(1)["validation_status"] = "skipped"
    /\ "validation_attempts" \in DOMAIN ObjBefore(2)
    /\ ObjBefore(2)["validation_attempts"] = 3
    /\ ObjAfter(2)["validation_attempts"] = 2
    /\ ObjAfter(2)["validation_status"] = "validated"

\* no two spaces in a row and none at the ends
Collapsed(text) ==
    /\ \A n \in 1..Len(text) : text[n] = " " => n \notin {1, Len(text)}
    /\ \A n \in 1..(Len(text) - 1) : ~(text[n] = " " /\ text[n + 1] = " ")

\* C19: for an object whose object_name contains a title marker,
\* generate_slide makes no generation call and no validation call, sets
\* validation_status to skipped and sets generated_content to the name
\* without the markers, whitespace collapsed; two objects of one name get
\* the same content.
C19_TitleShortcut ==
    SlideDone =>
        /\ \A i \in 1..2 : HasMarker(i) =>
              /\ \A n \in 1..Len(gen.result.calls) : gen.result.calls[n].object # i
              /\ ObjAfter(i)["validation_status"] = "skipped"
              /\ ObjAfter(i)["generated_content"] = TitleOf(ObjBefore(i)["object_name"])
              /\ Collapsed(ObjAfter(i)["generated_content"])
        /\ \A i \in 1..2 : ~HasMarker(i) =>
              Len(SelectSeq(gen.result.calls, LAMBDA c : c.object = i))
                 = 2 * LoopOf(i).attempts
        /\ HasMarker(1) /\ ObjBefore(1)["object_name"] = ObjBefore(2)["object_name"]
              => ObjAfter(1)["generated_content"] = ObjAfter(2)["generated_content"]

\* the padded title after a body that took three attempts: six calls, all
\* of the body
C19_Witness ==
    /\ SlideDone
    /\ ObjBefore(2)["object_name"] = NamePadded
    /\ ObjAfter(2)["generated_content"] = <<"m", "y">>
    /\ ObjAfter(2)["validation_status"] = "skipped"
    /\ ObjBefore(1)["object_name"] = NameBg
    /\ Len(gen.result.calls) = 6
    /\ \A n \in 1..6 : gen.result.calls[n].object = 1

-----------------------------------------------------------------------------
(* Properties of the verdict of the validator (SpecVerdict) *)

VerdictDone == ret.op = "_parse_validation_response"

IsValidLine(line) == StartsWith(Strip(line), TagValid)

\* what a VALID: line says after the tag
ValueOf(line) == Strip(SubSeq(Strip(line), Len(TagValid) + 1, Len(Strip(line))))

\* C20: _parse_validation_response returns is_valid = true only when the
\* answer has a VALID: line whose value is one of the affirmative tokens;
\* an answer without a VALID: line, with any other value, or that cannot be
\* parsed gives is_valid = false.
C20_FailClosed ==
    VerdictDone =>
        /\ gen.result["is_valid"] =>
              /\ gen.answer.content.type = "str"
              /\ \E n \in 1..Len(gen.answer.lines) :
                    /\ IsValidLine(gen.answer.lines[n])
                    /\ ValueOf(gen.answer.lines[n]) \in AffirmativeTokens
        /\ gen.answer.content.type # "str" => ~gen.result["is_valid"]

-----------------------------------------------------------------------------
(* Properties of the RevisionManager (SpecRev) *)

RetainedIds ==
    [i \in 1..Len(revision_manager.revisions) |->
        revision_manager.revisions[i].revision_id]

Range(f) == {f[i] : i \in DOMAIN f}

\* C1: the retained list never holds more than MAX_REVISIONS revisions, and
\* once more than MAX_REVISIONS have been saved it holds revision 1 and
\* exactly the newest MAX_REVISIONS - 1 revisions.
C1_AnchorAndNewest ==
    LET n == revision_manager.current_revision_id
    IN  /\ Len(revision_manager.revisions) <= MAX_REVISIONS
        /\ n > MAX_REVISIONS =>
              /\ Len(revision_manager.revisions) = MAX_REVISIONS
              /\ Range(RetainedIds) = {1} \cup ((n - MAX_REVISIONS + 2)..n)

C1_Witness ==
    /\ ret.op = "save_revision"
    /\ revision_manager.current_revision_id = MAX_REVISIONS + 2
    /\ RetainedIds[1] = 1
    /\ RetainedIds[2] = 4

\* the retained ids are strictly ascending, within 1..counter, the last being the counter
C2_IdsAscending ==
    LET revs == revision_manager.revisions
    IN  /\ \A i, j \in 1..Len(revs) : i < j => revs[i].revision_id < revs[j].revision_id
        /\ \A i \in 1..Len(revs) :
              revs[i].revision_id \in 1..revision_manager.current_revision_id
        /\ revision_manager.current_revision_id > 0 =>
              revs[Len(revs)].revision_id = revision_manager.current_revision_id

\* what one save_revision does to the ids
C2_SaveStep ==
    ret'.op = "save_revision" =>
        LET revs == revision_manager'.revisions
        IN  /\ ret'.value = revision_manager.current_revision_id + 1
            /\ revision_manager'.current_revision_id = ret'.value
            /\ revs[Len(revs)].revision_id = ret'.value
            /\ \A i \in 1..(Len(revs) - 1) : revs[i] \in Range(revision_manager.revisions)

\* C2: save_revision returns 1, 2, 3, ...: each save returns the previous
\* id plus one and gives that id to the revision it appends; every other
\* retained revision is one that was retained before, unchanged; the
\* retained ids are strictly ascending and none exceeds the last id issued.
C2_IdsNeverReused == [][C2_SaveStep]_vars /\ []C2_IdsAscending

C2_Witness ==
    /\ ret.op = "save_revision"
    /\ ret.value = MAX_REVISIONS + 1
    /\ Len(revision_manager.revisions) = MAX_REVISIONS

\* a restore step that follows the save step whose id it restores
C3_RestoreAfterSave ==
    (ret.op = "save_revision" /\ ret'.op = "restore_revision" /\ ret'.id = ret.value)
        => ret'.value = skeleton

\* C3: a restore_revision of the id that the save_revision just before it
\* returned yields the deck that was saved.
C3_RoundTrip == [][C3_RestoreAfterSave]_vars

C3_Witness ==
    /\ ret.op = "restore_revision"
    /\ ret.id = revision_manager.current_revision_id
    /\ ret.id > MAX_REVISIONS
    /\ ret.value = skeleton
    /\ revision_manager.revisions[1].snapshot # skeleton

\* a restore step leaves the manager alone
C4_RestoreStep ==
    ret'.op = "restore_revision" => revision_manager' = revision_manager

\* C4: restore_revision, whatever the id, leaves the revision list and the
\* id counter as they were.
C4_RestoreIsRead == [][C4_RestoreStep]_vars

C4_Witness ==
    /\ ret.op = "restore_revision"
    /\ ret.id = 1
    /\ ret.value # None
    /\ revision_manager.current_revision_id > MAX_REVISIONS

\* the selections the restore handler refuses
RefusedSelection(selection, rm) ==
    \/ selection.kind \in {"empty", "text"}
    \/ selection.kind = "revision"
          /\ \A i \in 1..Len(rm.revisions) : rm.revisions[i].revision_id # selection.id

\* C13: a restore request with an empty selection, with a selection that
\* carries no revision number, or with the id of a revision that is not
\* retained (never issued, or pruned) returns an error message and leaves
\* the live deck and the revision history as they were.
C13_RefusedRestore ==
    [][(ret'.op = "ui_restore_revision"
          /\ RefusedSelection(ret'.selection, revision_manager))
       => /\ ret'.msg = (CASE ret'.selection.kind = "empty" -> "no revision selected"
                           [] ret'.selection.kind = "text" -> "no revision number"
                           [] OTHER -> "revision not found")
          /\ skeleton' = skeleton
          /\ revision_manager' = revision_manager]_vars

\* the stale entry of revision 2, pruned by the 31st save, with a live deck
\* that is not the deck of any revision the positions 1 and 2 hold
C13_Witness ==
    /\ ret.op = "ui_restore_revision"
    /\ ret.selection = [kind |-> "revision", id |-> 2]
    /\ ret.msg = "revision not found"
    /\ revision_manager.current_revision_id = MAX_REVISIONS + 1
    /\ revision_manager.revisions[2].revision_id = 3
    /\ revision_manager.revisions[2].snapshot # skeleton

-----------------------------------------------------------------------------
(* Properties of the dropdown of revisions (SpecChoices) *)

DigitValue(c) == CHOOSE n \in 0..9 : Str(n) = c

RECURSIVE IntOf(_)
IntOf(digits) ==
    IF digits = <<>> THEN 0
    ELSE 10 * IntOf(SubSeq(digits, 1, Len(digits) - 1)) + DigitValue(digits[Len(digits)])

\* the revision id an entry shows between "[גרסה " and "]"
ShownId(choice) ==
    LET close == CHOOSE n \in 1..Len(choice) :
                     choice[n] = "]" /\ \A m \in 1..(n - 1) : choice[m] # "]"
    IN  IntOf(SubSeq(choice, 4, close - 1))

\* C21: get_revision_choices lists exactly the retained revisions, one
\* entry each, most recent first: the ids shown are strictly descending and
\* are the ids of the retained revisions, also after pruning.
C21_ChoicesNewestFirst ==
    ret.op = "get_revision_choices" =>
        /\ Len(ret.value) = Len(revision_manager.revisions)
        /\ {ShownId(ret.value[i]) : i \in 1..Len(ret.value)} = Range(RetainedIds)
        /\ \A i \in 1..(Len(ret.value) - 1) :
              ShownId(ret.value[i]) > ShownId(ret.value[i + 1])
        /\ \A i \in 1..Len(ret.value) :
              LET rev == get_revision(revision_manager, ShownId(ret.value[i]))
              IN  ret.value[i][Len(ret.value[i]) - 2] = rev.action

\* the list after the second pruning: the newest first, the anchor last
C21_Witness ==
    /\ ret.op = "get_revision_choices"
    /\ revision_manager.current_revision_id = MAX_REVISIONS + 2
    /\ Len(ret.value) = MAX_REVISIONS
    /\ ShownId(ret.value[1]) = MAX_REVISIONS + 2
    /\ ShownId(ret.value[MAX_REVISIONS - 1]) = 4
    /\ ShownId(ret.value[MAX_REVISIONS]) = 1

-----------------------------------------------------------------------------
(* Properties of the snapshots as objects (SpecHeap) *)

LastRevision(rm) == rm.revisions[Len(rm.revisions)]

SnapshotCells(rm) == {rm.revisions[i].snapshot.address : i \in 1..Len(rm.revisions)}

\* every retained revision keeps the deck it was saved with
SnapshotsKept ==
    \A i \in 1..Len(revision_manager.revisions) :
    \A j \in 1..Len(revision_manager'.revisions) :
        revision_manager.revisions[i].revision_id
              = revision_manager'.revisions[j].revision_id
           => heap'[revision_manager'.revisions[j].snapshot.address]
                 = heap[revision_manager.revisions[i].snapshot.address]

\* C15: a stored snapshot is an object of its own.  save_revision stores a
\* deck equal to the live deck in a cell that is not the live one; a restore
\* makes a deck equal to the snapshot, in a cell that is no snapshot, the
\* live deck; and no step (a save, a restore, an in-place edit of the live
\* deck, be it the saved deck or one that a restore returned) changes the
\* deck of a retained revision, so that two restores of one id yield equal
\* decks.
C15_SnapshotsIndependent ==
    [][/\ SnapshotsKept
       /\ skeleton'.address \notin SnapshotCells(revision_manager')
       /\ ret'.op = "save_revision"
             => heap'[LastRevision(revision_manager').snapshot.address] = Deref(skeleton)
       /\ (ret'.op = "ui_restore_revision" /\ ret'.msg = "restored")
             => heap'[skeleton'.address]
                   = Deref(get_revision(revision_manager, ret'.selection.id).snapshot)]_vars

\* the live deck is a restored one that was edited in place afterwards, and
\* the two revisions still hold the decks they were saved with
C15_Witness ==
    /\ ret.op = "mutate"
    /\ skeleton.address > 3
    /\ Len(revision_manager.revisions) = 2
    /\ Deref(revision_manager.revisions[1].snapshot) \in RevDecks
    /\ Deref(revision_manager.revisions[2].snapshot) \notin RevDecks
    /\ Deref(skeleton) \notin {Deref(revision_manager.revisions[1].snapshot),
                                Deref(revision_manager.revisions[2].snapshot)}

-----------------------------------------------------------------------------
(* Properties of the application (Spec) *)

IsAppliedEdit(r) == r.op \in {"deck_chat_edit", "slide_chat_edit"} /\ r.msg = "updated"

IsRestored(r) == r.op = "restore_revision" /\ r.msg = "restored"

IsLoaded(r) == r.op = "load_and_generate" /\ r.msg = "created"

\* C14: a successful load_and_generate leaves a revision manager that holds
\* one revision, with id 1, whose snapshot is the deck just generated; its
\* counter is 1 and no revision of the deck before can be restored from it.
C14_LoadResetsHistory ==
    [][IsLoaded(ret')
       => /\ Len(revision_manager'.revisions) = 1
          /\ revision_manager'.current_revision_id = 1
          /\ revision_manager'.revisions[1].revision_id = 1
          /\ revision_manager'.revisions[1].snapshot = skeleton'
          /\ \A si \in 1..Len(skeleton'["slides"]) :
                skeleton'["slides"][si]["generation_status"] = "completed"
          /\ \A n \in 2..(MaxAppSaves + 1) :
                restore_revision(revision_manager', n).ret = None]_vars

\* a load over a manager that had issued three revisions
C14_Witness ==
    /\ IsLoaded(ret)
    /\ ret.replaced = 3
    /\ Len(revision_manager.revisions) = 1
    /\ revision_manager.current_revision_id = 1

\* a successful restore makes the snapshot of the selected revision the live deck
C5_RestoreStep ==
    IsRestored(ret') =>
        skeleton' = get_revision(revision_manager, ret'.selection.id).snapshot

\* an applied edit saves the live deck plus the edit under a fresh id
C5_EditStep ==
    IsAppliedEdit(ret') =>
        LET new == LastRevision(revision_manager')
            old == revision_manager.revisions
            n == Len(revision_manager'.revisions)
        IN  /\ new.snapshot =
                 apply_edits_to_skeleton(skeleton, ret'.edit_data, ret'.scope).deck
            /\ \A i \in 1..Len(old) : old[i].revision_id < new.revision_id
            /\ new.revision_id > revision_manager.current_revision_id
            /\ \A i \in 1..(n - 1) : revision_manager'.revisions[i] \in Range(old)

\* an applied edit right after a successful restore saves the restored deck plus the edit
C5_EditAfterRestore ==
    (IsRestored(ret) /\ IsAppliedEdit(ret')) =>
        LastRevision(revision_manager').snapshot =
            apply_edits_to_skeleton(
                get_revision(revision_manager, ret.selection.id).snapshot,
                ret'.edit_data, ret'.scope).deck

\* C5: after a successful restore the live deck is the restored snapshot,
\* and the next applied edit saves a new revision whose snapshot is the
\* restored deck plus that edit, under an id greater than every id issued
\* before, with every earlier revision left as it was.
C5_EditOnRestored ==
    [][C5_RestoreStep /\ C5_EditStep /\ C5_EditAfterRestore]_vars

\* revision 3 is revision 1 plus the last edit, and not revision 2 plus that edit
C5_Witness ==
    /\ IsAppliedEdit(ret)
    /\ Len(revision_manager.revisions) = 3
    /\ LET revs == revision_manager.revisions
           on(i) == apply_edits_to_skeleton(revs[i].snapshot, ret.edit_data, ret.scope).deck
       IN  /\ revs[3].snapshot = skeleton
           /\ revs[3].snapshot = on(1)
           /\ revs[3].snapshot # on(2)
           /\ revs[3].revision_id = 3

-----------------------------------------------------------------------------
(* Properties of the edit handlers on the answers of the edit LLM          *)
(* (SpecAnswer)                                                            *)

IsEditOp(r) == r.op \in {"deck_chat_edit", "slide_chat_edit"}

\* the handler got as far as calling the edit LLM
CalledLLM(r) == IsEditOp(r) /\ r.msg \notin {"no deck", "no slide selected", "slide not found"}

\* the kinds of answer that are no JSON text
MalformedKinds == {"truncated", "prose", "trailing prose", "one line fence"}

JSONDecodeMessages ==
    {"Expecting value", "Expecting property name enclosed in double quotes",
     "Expecting ':' delimiter", "Expecting ',' delimiter", "Extra data"}

\* C11: when the answer of the edit LLM is malformed JSON (cut off, prose,
\* text after the object), deck_chat_edit and slide_chat_edit leave the deck
\* and the revision history as they were and return, without raising, the
\* message that quotes the cause of the parse failure.
C11_MalformedLeavesDeck ==
    [][(CalledLLM(ret') /\ ret'.response \in MalformedKinds)
       => /\ skeleton' = skeleton
          /\ revision_manager' = revision_manager
          /\ ret'.raised = ""
          /\ ret'.msg = "could not process"
          /\ Len(ret'.cause) = 2
          /\ ret'.cause[1] \in JSONDecodeMessages]_vars

\* an answer cut off after its first edit, at slide scope, before any save
C11_Witness ==
    /\ ret.op = "slide_chat_edit"
    /\ ret.scope = "2"
    /\ ret.response = "truncated"
    /\ ret.msg = "could not process"
    /\ ret.cause[1] = "Expecting ',' delimiter"
    /\ ret.cause[2] > 10
    /\ Len(revision_manager.revisions) = 1
    /\ skeleton = revision_manager.revisions[1].snapshot

\* C12: whatever the answer of the edit LLM (malformed JSON, keys left out,
\* values of another shape), the edit handler returns without raising, and a
\* deck it has changed is the deck of the revision it has just saved.
C12_NeverRaisesNorPartial ==
    [][IsEditOp(ret')
       => /\ ret'.raised = ""
          /\ skeleton' # skeleton
                => /\ ret'.msg = "updated"
                   /\ LastRevision(revision_manager').snapshot = skeleton'
                   /\ revision_manager'.current_revision_id
                         = revision_manager.current_revision_id + 1]_vars

\* the answer, as parsed, holds an edit that finds an object of the deck in
\* Pass 1 or in Pass 2
AppliesSome(deck, edit_data, scope) ==
    /\ edit_data # None
    /\ edit_data.type = "dict"
    /\ "edits" \in DOMAIN edit_data.v
    /\ edit_data.v["edits"].type = "list"
    /\ \E i \in 1..Len(edit_data.v["edits"].v) :
          /\ edit_data.v["edits"].v[i].type = "dict"
          /\ LET edit == Fields(edit_data.v["edits"].v[i])
                 name == Get(edit, "object_name", <<>>)
             IN  \/ Pass1Hits(deck, IF scope # "" THEN scope ELSE SlideNumStr(edit),
                              Get(edit, "object_id", ""), name) # {}
                 \/ name # <<>> /\ Pass2Hits(deck, name) # {}

\* C24: an edit request saves a new revision if and only if at least one
\* edit was applied; when the answer parses and no edit applies, the deck,
\* the revision list and the id counter stay as they were and the handler
\* returns its diagnostic message, not an error.
C24_SavesIffApplied ==
    [][CalledLLM(ret')
       => LET saved == revision_manager' # revision_manager
              applied == AppliesSome(skeleton, ret'.edit_data, ret'.scope)
          IN  /\ saved <=> applied
              /\ saved =>
                    /\ revision_manager'.current_revision_id
                          = revision_manager.current_revision_id + 1
                    /\ LastRevision(revision_manager').snapshot = skeleton'
              /\ ret'.edit_data # None /\ ~applied =>
                    /\ skeleton' = skeleton
                    /\ revision_manager' = revision_manager
                    /\ ret'.raised = ""
                    /\ ret'.msg = "nothing applied"]_vars

\* the last user operation returned (an edit handler without raising)
Completed(r) ==
    \/ r.op = "restore_revision"
    \/ IsEditOp(r) /\ r.raised = ""

\* C26: once a deck is loaded, after every completed user operation (deck
\* edit, slide edit, restore, whatever its outcome) the current deck equals
\* the snapshot of a revision retained in the history.
C26_DeckIsARevision ==
    (Completed(ret) /\ skeleton # None) =>
        \E i \in 1..Len(revision_manager.revisions) :
            revision_manager.revisions[i].snapshot = skeleton

-----------------------------------------------------------------------------
(* Properties of load_and_generate on a session with a deck (SpecReload) *)

\* C27: when load_and_generate fails on a malformed template (no JSON, or
\* JSON without slides), the deck that was active and its revision history
\* are left as they were.
C27_FailedLoadKeepsSession ==
    [][(ret'.op = "load_and_generate" /\ ret'.raised # "")
       => /\ skeleton' = skeleton
          /\ revision_manager' = revision_manager]_vars

-----------------------------------------------------------------------------
(* Properties of the slide-scoped edit (SpecScoped) *)

\* C25: slide_chat_edit on slide s never changes the generated_content or
\* the validation_status of an object of another slide, whatever edit the
\* LLM proposes.
C25_ScopedStaysOnSlide ==
    [][ret'.op = "slide_chat_edit"
       => \A p \in Positions(skeleton) :
             SlideNumStr(skeleton["slides"][p[1]]) # ret'.scope
             => /\ ObjAt(skeleton', p)["generated_content"]
                      = ObjAt(skeleton, p)["generated_content"]
                /\ ObjAt(skeleton', p)["validation_status"]
                      = ObjAt(skeleton, p)["validation_status"]]_vars

-----------------------------------------------------------------------------
(* Properties of apply_edits_to_skeleton (SpecEdit) *)

\* the positions whose object differs between two decks of the same shape
ChangedPositions(before, after) ==
    {p \in Positions(before) : ObjAt(before, p) # ObjAt(after, p)}

PositionsOfSlide(deck, slide_num) ==
    {p \in Positions(deck) : deck["slides"][p[1]]["slide_num"] = slide_num}

WithId(deck, ps, id) == {p \in ps : ObjAt(deck, p)["object_id"] = id}

WithName(deck, ps, name) == {p \in ps : ObjAt(deck, p)["object_name"] = name}

IsEdited(obj, content) ==
    obj["generated_content"] = content /\ obj["validation_status"] = "edited_by_agent"

IsSingleEditCall(r) ==
    /\ r.op = "apply_edits_to_skeleton"
    /\ "edits" \in DOMAIN r.edit_data
    /\ Len(r.edit_data.edits) = 1

\* two objects on slides 1 and 2 share object_id "Title 1" and differ in object_name
SharedTitleId(deck) ==
    \E p \in WithId(deck, PositionsOfSlide(deck, 1), "Title 1") :
    \E q \in WithId(deck, PositionsOfSlide(deck, 2), "Title 1") :
        ObjAt(deck, p)["object_name"] # ObjAt(deck, q)["object_name"]

\* the deck-scope call with one edit addressed by (2, "Title 1")
C6_Step ==
    (/\ IsSingleEditCall(ret')
     /\ ret'.scope = ""
     /\ ret'.edit_data.edits[1].slide_num = 2
     /\ ret'.edit_data.edits[1].object_id = "Title 1"
     /\ SharedTitleId(skeleton))
    => /\ ChangedPositions(skeleton, skeleton') \subseteq PositionsOfSlide(skeleton, 2)
       /\ \A p \in WithId(skeleton, PositionsOfSlide(skeleton, 1), "Title 1") :
             /\ ObjAt(skeleton', p)["generated_content"]
                   = ObjAt(skeleton, p)["generated_content"]
             /\ ObjAt(skeleton', p)["validation_status"]
                   = ObjAt(skeleton, p)["validation_status"]
       /\ \A q \in WithId(skeleton, PositionsOfSlide(skeleton, 2), "Title 1") :
             (\A p \in PositionsOfSlide(skeleton, 2) :
                 (p[1] < q[1] \/ (p[1] = q[1] /\ p[2] < q[2]))
                    => ObjAt(skeleton, p)["object_name"]
                          # ret'.edit_data.edits[1].object_name)
             => IsEdited(ObjAt(skeleton', q), ret'.edit_data.edits[1].new_content)
       /\ Cardinality(ChangedPositions(skeleton, skeleton')) = 1
       /\ ret'.value = 1

\* C6: with object_id "Title 1" on slides 1 and 2 under distinct names, a
\* deck-scope edit addressed by (slide_num 2, object_id "Title 1") changes
\* no object outside slide 2, so the "Title 1" of slide 1 keeps its content
\* and status, and writes the "Title 1" object of slide 2 (unless the edit
\* also names an object listed before it on slide 2, which is then the one
\* written).
C6_OnlySlideTwo == [][C6_Step]_vars

C6_Witness ==
    /\ IsSingleEditCall(ret)
    /\ ret.scope = ""
    /\ ret.edit_data.edits[1].slide_num = 2
    /\ ret.edit_data.edits[1].object_id = "Title 1"
    /\ ret.edit_data.edits[1].object_name = NameTitle1
    /\ SharedTitleId(skeleton)
    /\ \E q \in WithId(skeleton, PositionsOfSlide(skeleton, 2), "Title 1") :
          IsEdited(ObjAt(skeleton, q), <<"n1">>)
    /\ \E p \in WithId(skeleton, PositionsOfSlide(skeleton, 1), "Title 1") :
          ObjAt(skeleton, p)["validation_status"] = "skipped"

\* the slide number an edit is matched against in Pass 1
TargetSlideNum(edit, scope) == IF scope # "" THEN scope ELSE SlideNumStr(edit)

PositionsOfTarget(deck, target) ==
    {p \in Positions(deck) : SlideNumStr(deck["slides"][p[1]]) = target}

\* the proposed slide_num matches no slide, and the non-empty proposed
\* object_name is the object_name of exactly one object of the deck
WrongSlideUniqueName(deck, edit) ==
    /\ PositionsOfTarget(deck, SlideNumStr(edit)) = {}
    /\ edit.object_name # <<>>
    /\ Cardinality(WithName(deck, Positions(deck), edit.object_name)) = 1

NamedObjectEdited(before, after, edit) ==
    \A p \in WithName(before, Positions(before), edit.object_name) :
        IsEdited(ObjAt(after, p), edit.new_content)

\* the fallback for any scope
C7_OriginalStep ==
    (IsSingleEditCall(ret') /\ WrongSlideUniqueName(skeleton, ret'.edit_data.edits[1]))
    => /\ NamedObjectEdited(skeleton, skeleton', ret'.edit_data.edits[1])
       /\ ret'.value = 1

ScopeLeavesName(deck, edit, scope) ==
    \A p \in PositionsOfTarget(deck, scope) :
        (edit.object_id # "" /\ ObjAt(deck, p)["object_id"] = edit.object_id)
            => ObjAt(deck, p)["object_name"] = edit.object_name

\* the fallback where the scope does not get in its way
C7_AmendedStep ==
    (/\ IsSingleEditCall(ret')
     /\ WrongSlideUniqueName(skeleton, ret'.edit_data.edits[1])
     /\ (ret'.scope = "" \/ ScopeLeavesName(skeleton, ret'.edit_data.edits[1], ret'.scope)))
    => /\ NamedObjectEdited(skeleton, skeleton', ret'.edit_data.edits[1])
       /\ ChangedPositions(skeleton, skeleton')
             = WithName(skeleton, Positions(skeleton), ret'.edit_data.edits[1].object_name)
       /\ ret'.value = 1

MatchesNothing(deck, edit, scope) ==
    /\ WithName(deck, Positions(deck), Get(edit, "object_name", <<>>)) = {}
    /\ WithId(deck, PositionsOfTarget(deck, TargetSlideNum(edit, scope)),
              Get(edit, "object_id", "")) = {}

\* a call none of whose edits matches
C8_Step ==
    (/\ ret'.op = "apply_edits_to_skeleton"
     /\ LET edits == Get(ret'.edit_data, "edits", <<>>)
        IN  \A i \in 1..Len(edits) : MatchesNothing(skeleton, edits[i], ret'.scope))
    => /\ ret'.value = 0
       /\ skeleton' = skeleton

\* C8: a call whose edits name no existing object_name and no object_id of
\* the targeted slide returns 0 and leaves the deck as it was.
C8_NoMatchNoChange == [][C8_Step]_vars

C8_Witness ==
    /\ IsSingleEditCall(ret)
    /\ ret.scope = ""
    /\ ret.edit_data.edits[1].slide_num = 3
    /\ ret.edit_data.edits[1].object_id = "Title 1"
    /\ ret.edit_data.edits[1].object_name = NameUnknown
    /\ ret.value = 0
    /\ skeleton \in EditDecks

\* p comes before q in the order of the loops: slide order, then object order
Before(p, q) == p[1] < q[1] \/ (p[1] = q[1] /\ p[2] < q[2])

\* the slide-scoped call with one edit whose object_id the scoped slide has
C16_Step ==
    (/\ IsSingleEditCall(ret')
     /\ ret'.scope # ""
     /\ ret'.edit_data.edits[1].object_id # ""
     /\ WithId(skeleton, PositionsOfTarget(skeleton, ret'.scope),
               ret'.edit_data.edits[1].object_id) # {})
    => LET edit == ret'.edit_data.edits[1]
           scoped == PositionsOfTarget(skeleton, ret'.scope)
           hits == Pass1Hits(skeleton, ret'.scope, edit.object_id, edit.object_name)
       IN  /\ hits \subseteq scoped
           /\ ChangedPositions(skeleton, skeleton') \subseteq scoped
           /\ Cardinality(ChangedPositions(skeleton, skeleton')) = 1
           /\ ret'.value = 1
           /\ \A q \in WithId(skeleton, scoped, edit.object_id) :
                 (\A p \in scoped :
                     Before(p, q) => /\ ObjAt(skeleton, p)["object_id"] # edit.object_id
                                     /\ ObjAt(skeleton, p)["object_name"] # edit.object_name)
                 => IsEdited(ObjAt(skeleton', q), edit.new_content)

\* C16: in a slide-scoped call Pass 1 searches the scoped slide only,
\* whatever slide_num the edit proposes: an edit with an object_id that the
\* scoped slide has changes one object, on the scoped slide (the first of
\* that slide with the proposed object_id or object_name), and no object of
\* the slide it proposes.
C16_ScopeOverrides == [][C16_Step]_vars

\* scope 2, an edit that proposes slide 1 and the object_id both slides have
C16_Witness ==
    /\ IsSingleEditCall(ret)
    /\ ret.scope = "2"
    /\ ret.edit_data.edits[1].slide_num = 1
    /\ ret.edit_data.edits[1].object_id = "Title 1"
    /\ ret.edit_data.edits[1].object_name = NameTitle1
    /\ SharedTitleId(skeleton)
    /\ \E q \in WithId(skeleton, PositionsOfSlide(skeleton, 2), "Title 1") :
          IsEdited(ObjAt(skeleton, q), <<"n2">>)
    /\ \E p \in WithId(skeleton, PositionsOfSlide(skeleton, 1), "Title 1") :
          /\ ObjAt(skeleton, p)["validation_status"] = "skipped"
          /\ ObjAt(skeleton, p)["object_name"] = NameTitle1

\* the position of ps that the loops reach first
Earliest(ps) == CHOOSE p \in ps : \A q \in ps : q = p \/ Before(p, q)

\* the objects of the target slide with the proposed id or the proposed name
Pass1Candidates(deck, edit, scope) ==
    LET target == PositionsOfTarget(deck, TargetSlideNum(edit, scope))
    IN  WithId(deck, target, edit.object_id) \cup WithName(deck, target, edit.object_name)

\* the objects of the deck with the proposed name, for a proposed name that
\* is not empty
Pass2Candidates(deck, edit) ==
    IF edit.object_name = <<>> THEN {}
    ELSE WithName(deck, Positions(deck), edit.object_name)

EditMatches(deck, edit, scope) ==
    Pass1Candidates(deck, edit, scope) # {} \/ Pass2Candidates(deck, edit) # {}

C22_Step ==
    ret'.op = "apply_edits_to_skeleton" =>
        LET edits == Get(ret'.edit_data, "edits", <<>>)
            changed == ChangedPositions(skeleton, skeleton')
        IN  /\ Cardinality(changed) <= Len(edits)
            /\ ret'.value = Cardinality({i \in 1..Len(edits) :
                                  EditMatches(skeleton, edits[i], ret'.scope)})
            /\ Len(edits) = 1 =>
                  LET edit == edits[1]
                      pass1 == Pass1Candidates(skeleton, edit, ret'.scope)
                      pass2 == Pass2Candidates(skeleton, edit)
                  IN  /\ pass1 # {} =>
                            /\ changed = {Earliest(pass1)}
                            /\ IsEdited(ObjAt(skeleton', Earliest(pass1)), edit.new_content)
                      /\ pass1 = {} /\ pass2 # {} =>
                            /\ changed = {Earliest(pass2)}
                            /\ IsEdited(ObjAt(skeleton', Earliest(pass2)), edit.new_content)
                      /\ pass1 = {} /\ pass2 = {} => changed = {}

\* C22: each proposed edit changes at most one object.  Pass 1 changes the
\* first object, in slide order, of the slide with the target slide_num
\* whose object_id is the proposed id or whose object_name is the proposed
\* name, and stops; Pass 2 runs only when Pass 1 matched nothing and the
\* proposed object_name is not empty, and changes the first object in deck
\* order with that name.  The count returned is the number of edits that
\* matched in either pass.
C22_OneObjectPerEdit == [][C22_Step]_vars

\* slide 1 holds an object with the proposed id and, before it, one with the
\* proposed name: the earlier one is written, the other is left
C22_Witness ==
    /\ IsSingleEditCall(ret)
    /\ ret.scope = ""
    /\ ret.edit_data.edits[1].slide_num = 1
    /\ ret.edit_data.edits[1].object_id = "Rectangle 2"
    /\ ret.edit_data.edits[1].object_name = NameTitle1
    /\ ret.value = 1
    /\ \E p \in PositionsOfSlide(skeleton, 1) : \E q \in PositionsOfSlide(skeleton, 1) :
          /\ Before(p, q)
          /\ ObjAt(skeleton, p)["object_name"] = NameTitle1
          /\ IsEdited(ObjAt(skeleton, p), ret.edit_data.edits[1].new_content)
          /\ ObjAt(skeleton, q)["object_id"] = "Rectangle 2"
          /\ ObjAt(skeleton, q)["validation_status"] # "edited_by_agent"

EditedFields == {"generated_content", "validation_status"}

\* the positions an edit can match, in Pass 1 or in Pass 2
Candidates(deck, edit, scope) ==
    Pass1Candidates(deck, edit, scope) \cup Pass2Candidates(deck, edit)

C28_Step ==
    ret'.op = "apply_edits_to_skeleton" =>
        LET edits == Get(ret'.edit_data, "edits", <<>>)
        IN  /\ DOMAIN skeleton' = DOMAIN skeleton
            /\ Len(skeleton'["slides"]) = Len(skeleton["slides"])
            /\ \A si \in 1..Len(skeleton["slides"]) :
                  LET before == skeleton["slides"][si]
                      after == skeleton'["slides"][si]
                  IN  /\ DOMAIN after = DOMAIN before
                      /\ \A k \in DOMAIN before \ {"slide_objects"} : after[k] = before[k]
                      /\ Len(after["slide_objects"]) = Len(before["slide_objects"])
            /\ \A p \in Positions(skeleton) :
                  LET before == ObjAt(skeleton, p)
                      after == ObjAt(skeleton', p)
                  IN  /\ DOMAIN after = DOMAIN before \cup
                            (IF after = before THEN {} ELSE EditedFields)
                      /\ \A k \in DOMAIN before \ EditedFields : after[k] = before[k]
                      /\ after # before =>
                            /\ after["validation_status"] = "edited_by_agent"
                            /\ \E i \in 1..Len(edits) :
                                  /\ p \in Candidates(skeleton, edits[i], ret'.scope)
                                  /\ after["generated_content"] = edits[i].new_content
                      /\ (\A i \in 1..Len(edits) :
                              p \notin Candidates(skeleton, edits[i], ret'.scope))
                            => after = before

\* C28: apply_edits_to_skeleton changes only generated_content and
\* validation_status of matched objects, to new_content and
\* edited_by_agent: the number and the order of slides and objects, every
\* slide_num, object_id, object_name, description, generation_status and
\* validation_attempts, and all fields of the objects no edit matches stay
\* as they were.
C28_OnlyContentAndStatus == [][C28_Step]_vars

\* two edits, the first by name through Pass 2 on a validated body: its
\* content and status are new, its validation_attempts still 1
C28_Witness ==
    /\ ret.op = "apply_edits_to_skeleton"
    /\ "edits" \in DOMAIN ret.edit_data
    /\ Len(ret.edit_data.edits) = 2
    /\ ret.value = 2
    /\ ret.edit_data.edits[1].object_name = NameSum
    /\ \E p \in PositionsOfSlide(skeleton, 2) :
          /\ ObjAt(skeleton, p)["object_name"] = NameSum
          /\ IsEdited(ObjAt(skeleton, p), <<"n1">>)
          /\ ObjAt(skeleton, p)["validation_attempts"] = 1
          /\ ObjAt(skeleton, p)["object_id"] = "Rectangle 2"
    /\ skeleton["slides"][1]["generation_status"] = "completed"
    /\ \E q \in PositionsOfSlide(skeleton, 1) :
          IsEdited(ObjAt(skeleton, q), <<"n2">>)

-----------------------------------------------------------------------------
(* Properties of the retry loop (SpecGen) *)

TotalAttempts == 1 + gen.max_retries

ValidAttempts == {n \in 1..TotalAttempts : gen.script[n].validation.is_valid}

CallsOf(kind) == SelectSeq(gen.result.calls, LAMBDA c : c.call = kind)

\* attempts 1..k each made one generation call and then one validator call,
\* the validator being given the text generated in the same attempt
OneGenerateThenOneValidate(k) ==
    /\ Len(gen.result.calls) = 2 * k
    /\ \A n \in 1..k :
          /\ gen.result.calls[2 * n - 1].call = "generate"
          /\ gen.result.calls[2 * n - 1].attempt = n
          /\ gen.result.calls[2 * n].call = "validate"
          /\ gen.result.calls[2 * n].attempt = n
          /\ gen.result.calls[2 * n].generated_content = gen.script[n].content

\* C9: each attempt makes one generation call followed by one validator
\* call, and the loop stops at the first valid verdict: when that comes at
\* attempt k there are k generation and k validator calls and the result is
\* the text of attempt k, status validated, attempts k.
C9_StopsAtFirstValid ==
    (ret.op = "_generate_with_validation" /\ ValidAttempts # {}) =>
        LET k == CHOOSE n \in ValidAttempts : \A m \in ValidAttempts : n <= m
        IN  /\ OneGenerateThenOneValidate(k)
            /\ Len(CallsOf("generate")) = k
            /\ Len(CallsOf("validate")) = k
            /\ gen.result.content = gen.script[k].content
            /\ gen.result.status = "validated"
            /\ gen.result.attempts = k

C9_Witness ==
    /\ ret.op = "_generate_with_validation"
    /\ gen.max_retries = DefaultMaxRetries
    /\ ValidAttempts = {TotalAttempts}
    /\ gen.result.attempts = 3
    /\ gen.result.content = <<"g2">>
    /\ gen.script[1].content = <<"g1">>

Exhausted == ret.op = "_generate_with_validation" /\ ValidAttempts = {}

ExhaustedResult ==
    /\ OneGenerateThenOneValidate(TotalAttempts)
    /\ Len(CallsOf("generate")) = TotalAttempts
    /\ Len(CallsOf("validate")) = TotalAttempts
    /\ gen.result.content = NO_INFO_MESSAGE
    /\ gen.result.status = "failed_validation"
    /\ gen.result.attempts = TotalAttempts

\* C10 as stated: with every verdict invalid the loop ends after
\* 1 + max_retries attempts with the refusal literal, failed_validation and
\* attempts = 1 + max_retries, and the content returned is not the text
\* rejected last.
C10_Original ==
    Exhausted =>
        /\ ExhaustedResult
        /\ gen.result.content # gen.script[TotalAttempts].content

\* C10 (amended): the same, the content returned being the text rejected
\* last only when that text is the refusal literal itself.
C10_DegradesToRefusal ==
    Exhausted =>
        /\ ExhaustedResult
        /\ gen.script[TotalAttempts].content # NO_INFO_MESSAGE
              => gen.result.content # gen.script[TotalAttempts].content

C10_Witness ==
    /\ Exhausted
    /\ gen.max_retries = DefaultMaxRetries
    /\ Len(gen.result.calls) = 6
    /\ gen.script[3].content = <<"g2">>
    /\ gen.result.content = NO_INFO_MESSAGE

\* the generation call of attempt n, as logged
GenerateCall(n) == gen.result.calls[2 * n - 1]

\* C23: the generation call of attempt 1 gets empty feedback; the
\* generation call of each attempt n > 1 gets a feedback text with the
\* reason and the feedback of the verdict of attempt n - 1.
C23_FeedbackOfPreviousAttempt ==
    ret.op = "_generate_with_validation" =>
        \A n \in 1..(Len(gen.result.calls) \div 2) :
            /\ GenerateCall(n).call = "generate"
            /\ GenerateCall(n).attempt = n
            /\ n = 1 => GenerateCall(n).validation_feedback = <<>>
            /\ n > 1 =>
                  /\ Len(GenerateCall(n).validation_feedback) = 3
                  /\ GenerateCall(n).validation_feedback[2]
                        = gen.script[n - 1].validation.reason
                  /\ GenerateCall(n).validation_feedback[3]
                        = gen.script[n - 1].validation.feedback

\* three attempts, the first rejected for r1 and the second for r2: the
\* third generation call is told r2
C23_Witness ==
    /\ ret.op = "_generate_with_validation"
    /\ gen.max_retries = DefaultMaxRetries
    /\ Len(gen.result.calls) = 6
    /\ gen.script[1].validation.reason = "r1"
    /\ gen.script[2].validation.reason = "r2"
    /\ GenerateCall(1).validation_feedback = <<>>
    /\ GenerateCall(2).validation_feedback[2] = "r1"
    /\ GenerateCall(3).validation_feedback[2] = "r2"
    /\ GenerateCall(3).validation_feedback[3] = "f2"

====
